---- MODULE Spec2Model ----
(***************************************************************************)
(* Round / phase lifecycle engine of the party game (convex/game).         *)
(*                                                                         *)
(* One room is modelled.  Every Convex mutation is one atomic action (the  *)
(* store runs mutations as serialisable transactions).  The scheduler is   *)
(* the bag `jobs`: ctx.scheduler.runAfter / runAt add a pending job,       *)
(* ctx.scheduler.cancel removes it, and a job whose delay has elapsed is   *)
(* run by the action of the function it names.                             *)
(*                                                                         *)
(* Time is kept relative to the present in units of TickMs milliseconds:   *)
(* a job's `due` is the time left until it runs and a round's              *)
(* phaseEndTime is phaseEndTime - Date.now().  Tick lets one unit pass.    *)
(* Scheduled jobs run on time: no time passes while a job is due.          *)
(*                                                                         *)
(* Job ids are opaque in the code and only the ids of deadline timers are  *)
(* ever stored (round.scheduledTransitionId).  The deadline timer that was *)
(* scheduled for round r when it entered status P has the id P on round r; *)
(* "none" is the undefined handle.                                         *)
(***************************************************************************)
EXTENDS Integers, Sequences, FiniteSets, Bags, TLC

\* ------------------------------------------------------------------ bounds
NumPlayers == 2          \* players in the room when the game starts
MaxJobs == 4             \* pending jobs at one moment
MaxDepartures == 1       \* players that may be disconnected/kicked at once
MaxForced == 1           \* forcePhaseTransition calls per game
MaxPrompts == 2          \* rows of the prompts table
MaxVotes == 3            \* rows of the votes table
roundsPerGame == 2       \* room.settings.roundsPerGame (1..10)
MaxCount == 2            \* largest count in a vote-count map given directly

\* --------------------------------------------------------------- constants
MINIMUM_PHASE_DURATION_MS == 1000
maxRetries == 3

\* The unit of time is the minimum dwell time; delays are rounded up to it.
TickMs == MINIMUM_PHASE_DURATION_MS
Ms(ms) == (ms + TickMs - 1) \div TickMs

\* GAME_CONFIG (convex/lib/constants.ts).  Durations are stand-ins that keep
\* the order of the real ones: every phase is longer than the minimum dwell
\* time and generation is longer than the whole verification retry chain.
PROMPT_PHASE_DURATION == Ms(2000)
GENERATION_PHASE_DURATION == Ms(10000)
VOTING_PHASE_DURATION == Ms(2000)
RESULTS_PHASE_DURATION == Ms(2000)
POINTS_PER_WIN == 100
POINTS_PER_VOTE == 10

\* Users of the service; the first NumPlayers of them are in the room.
Users == 1..(NumPlayers + 1)
Members == 1..NumPlayers

VARIABLES
  room,        \* [status, hostId, currentRound]  (currentRound 0 = unset)
  players,     \* player id -> [status, isHost, score]   (userId = player id)
  rounds,      \* sequence of rounds; the round id is the index
  prompts,     \* set of [id, roundId, playerId, text]
  images,      \* set of [promptId]; promptId = <<roundId, playerId>>
  votes,       \* set of [id, roundId, voterId, imageId]; imageId = promptId
  jobs,        \* scheduler: bag of pending jobs
  genActive,   \* rounds whose generateAIImages job has started
  forced,      \* number of forcePhaseTransition calls so far
  scoreLog,    \* the points logged by calculateScores, in order
  promptsCompleted, \* rounds in which a submitPrompt completed the prompts
  votesCompleted,   \* rounds in which a submitVote completed the votes
  logicCall,   \* a direct call of a function of lib/gameLogic: [fn, ...]
  logicResult  \* what the call returned: [done, value]

\* No direct call of a gameLogic function is under way
NoCall == [fn |-> "none"]
NoResult == [done |-> FALSE]

vars == <<room, players, rounds, prompts, images, votes, jobs, genActive,
          forced, scoreLog, promptsCompleted, votesCompleted,
          logicCall, logicResult>>

\* ------------------------------------------------------------- scheduler
\* origin and phase are bookkeeping: who scheduled the job and the status
\* the round had when the job was scheduled.
Job(fn, r, delay, retry, origin, phase) ==
  [fn |-> fn, roundId |-> r, due |-> delay, retryCount |-> retry,
   origin |-> origin, phase |-> phase]

Schedule(js, j) == js (+) SetToBag({j})

Done(js, j) == js (-) SetToBag({j})

CanSchedule(js, n) == BagCardinality(js) + n <= MaxJobs

\* A cancel that removes every pending deadline timer of the round
CancelAnyPhase(js, r, h) ==
  LET keep == {j \in DOMAIN js : ~(j.origin = "deadline" /\ j.roundId = r)}
  IN [j \in keep |-> js[j]]

\* ctx.scheduler.cancel(round.scheduledTransitionId): removes the pending
\* deadline timer with that id; no effect when it already ran or was cancelled
Cancel(js, r, h) ==
  LET keep == {j \in DOMAIN js : ~(j.origin = "deadline" /\ j.roundId = r /\ j.phase = h)}
  IN [j \in keep |-> js[j]]

Runnable(j, fn) == j \in DOMAIN jobs /\ j.fn = fn /\ j.due = 0

\* --------------------------------------------------------------- queries
Connected == {p \in DOMAIN players : players[p].status = "connected"}

PromptsOf(r) == {p \in prompts : p.roundId = r}
\* A query that collects the votes of every round
VotesOfAnyRound(r) == votes

VotesOf(r) == {v \in votes : v.roundId = r}
ImagesOf(r) == {i \in images : i.promptId[1] = r}

\* rounds.by_room_and_number(roomId, currentRound).unique()
CurrentRoundIds == {k \in DOMAIN rounds : rounds[k].roundNumber = room.currentRound}

NewRound(n) ==
  [roundNumber |-> n, status |-> "prompt",
   phaseEndTime |-> PROMPT_PHASE_DURATION, scheduledTransitionId |-> "none",
   generationExpectedCount |-> 0, generationCompletedCount |-> 0,
   generationError |-> FALSE]

getPhaseDuration(status) ==
  CASE status = "prompt" -> PROMPT_PHASE_DURATION
    [] status = "generating" -> GENERATION_PHASE_DURATION
    [] status = "voting" -> VOTING_PHASE_DURATION
    [] status = "results" -> RESULTS_PHASE_DURATION
    [] OTHER -> 0

\* A deadline timer whose job id is not stored on the round
ScheduleDeadlineUnstored(js, rs, r) ==
  [rounds |-> rs,
   jobs |-> Schedule(js, Job("transitionPhase", r, getPhaseDuration(rs[r].status),
                             0, "deadline", rs[r].status))]

\* runAt(Date.now() + duration, transitionPhase) and the patch that stores
\* the returned job id on the round
ScheduleDeadline(js, rs, r) ==
  [rounds |-> [rs EXCEPT ![r].scheduledTransitionId = rs[r].status],
   jobs |-> Schedule(js, Job("transitionPhase", r, getPhaseDuration(rs[r].status),
                             0, "deadline", rs[r].status))]

\* ------------------------------------------------------------------ Init
Init ==
  /\ room = [status |-> "waiting", hostId |-> 1, currentRound |-> 0]
  /\ players = [p \in Members |->
                  [status |-> "connected", isHost |-> (p = 1), score |-> 0]]
  /\ rounds = <<>>
  /\ prompts = {}
  /\ images = {}
  /\ votes = {}
  /\ jobs = EmptyBag
  /\ genActive = {}
  /\ forced = 0
  /\ scoreLog = <<>>
  /\ promptsCompleted = {}
  /\ votesCompleted = {}
  /\ logicCall = NoCall
  /\ logicResult = NoResult

\* ------------------------------------------------------------- lifecycle
\* A startGame that does not look at who calls it
MayStartGameAnyCaller(user) ==
  /\ room.status = "waiting"
  /\ Cardinality(Connected) >= 2

\* The checks of startGame that throw: caller is the host, the room is
\* waiting, at least 2 connected players
MayStartGame(user) ==
  /\ user \in DOMAIN players
  /\ user = room.hostId
  /\ room.status = "waiting"
  /\ Cardinality(Connected) >= 2

StartGame(user) ==
  /\ MayStartGame(user)
  /\ CanSchedule(jobs, 1)
  /\ room' = [room EXCEPT !.status = "starting", !.currentRound = 1]
  /\ jobs' = Schedule(jobs, Job("initializeGame", 0, 0, 0, "none", "none"))
  /\ UNCHANGED <<logicCall, logicResult, players, rounds, prompts, images, votes, genActive, forced,
                 scoreLog, promptsCompleted, votesCompleted>>

\* Creates round 1 with its prompt deadline timer.  The room is assumed to
\* have an active question card (ensureQuestionCards seeds one otherwise).
InitializeGame(j) ==
  /\ Runnable(j, "initializeGame")
  /\ LET rs0 == Append(rounds, NewRound(1))
         sd == ScheduleDeadline(Done(jobs, j), rs0, Len(rs0))
     IN /\ rounds' = sd.rounds
        /\ jobs' = sd.jobs
  /\ room' = [room EXCEPT !.status = "playing"]
  /\ UNCHANGED <<logicCall, logicResult, players, prompts, images, votes, genActive, forced, scoreLog,
                 promptsCompleted, votesCompleted>>

\* A next round that reuses the current number
NextRoundNumberSame(currentRound) == currentRound

\* nextRoundNumber = room.currentRound + 1
NextRoundNumber(currentRound) == currentRound + 1

StartNextRound(j) ==
  /\ Runnable(j, "startNextRound")
  /\ LET nextRoundNumber == NextRoundNumber(room.currentRound)
         rs0 == Append(rounds, NewRound(nextRoundNumber))
         sd == ScheduleDeadline(Done(jobs, j), rs0, Len(rs0))
     IN IF room.currentRound = 0
        THEN /\ jobs' = Done(jobs, j)
             /\ UNCHANGED <<room, rounds>>
        ELSE /\ rounds' = sd.rounds
             /\ jobs' = sd.jobs
             /\ room' = [room EXCEPT !.currentRound = nextRoundNumber]
  /\ UNCHANGED <<logicCall, logicResult, players, prompts, images, votes, genActive, forced, scoreLog,
                 promptsCompleted, votesCompleted>>

\* An endGame that reopens the room
EndGameReopens(j) ==
  /\ Runnable(j, "endGame")
  /\ jobs' = Done(jobs, j)
  /\ room' = [room EXCEPT !.status = "waiting"]
  /\ UNCHANGED <<logicCall, logicResult, players, rounds, prompts, images, votes, genActive, forced,
                 scoreLog, promptsCompleted, votesCompleted>>

EndGame(j) ==
  /\ Runnable(j, "endGame")
  /\ jobs' = Done(jobs, j)
  /\ room' = [room EXCEPT !.status = "finished"]
  /\ UNCHANGED <<logicCall, logicResult, players, rounds, prompts, images, votes, genActive, forced,
                 scoreLog, promptsCompleted, votesCompleted>>

\* --------------------------------------------------------------- prompts
\* String.prototype.trim on a text given as a sequence of characters
RECURSIVE TrimLeft(_)
TrimLeft(t) == IF t # <<>> /\ Head(t) = " " THEN TrimLeft(Tail(t)) ELSE t

RECURSIVE TrimRight(_)
TrimRight(t) ==
  IF t # <<>> /\ t[Len(t)] = " " THEN TrimRight(SubSeq(t, 1, Len(t) - 1)) ELSE t

Trim(t) == TrimRight(TrimLeft(t))

PromptInputs ==
  { <<" ", "a", "b", " ">>, <<"c", "a", "t">>, [i \in 1..201 |-> "x"] }

\* connectedPlayers.every(player => submittedPlayerIds.has(player._id))
AllPlayersSubmitted(connectedPlayers, submittedPrompts) ==
  \A pl \in connectedPlayers : \E p \in submittedPrompts : p.playerId = pl

\* ctx.db.insert gives the new document an id that no document of the table
\* has; documents of these tables are never deleted
NewId(table) == Cardinality(table) + 1

\* A submission that always inserts a new prompt
InsertPrompt(ps, r, user, text) ==
  ps \cup {[id |-> NewId(ps), roundId |-> r, playerId |-> user, text |-> text]}

\* The prompt of the player in the round is patched if there is one, and
\* inserted otherwise
UpsertPrompt(ps, r, user, text) ==
  LET existing == {p \in ps : p.roundId = r /\ p.playerId = user}
  IN IF existing # {}
     THEN (ps \ existing) \cup {[p EXCEPT !.text = text] : p \in existing}
     ELSE ps \cup {[id |-> NewId(ps), roundId |-> r, playerId |-> user,
                    text |-> text]}

\* A phase test that lets a prompt in whatever the round's status
InPromptPhaseAlways(round) == TRUE

\* round.status !== "prompt" throws "Not in prompt phase"
InPromptPhase(round) == round.status = "prompt"

SubmitPrompt(user, prompt) ==
  LET trimmedPrompt == Trim(prompt) IN
  /\ Len(trimmedPrompt) >= 3
  /\ Len(trimmedPrompt) <= 200
  /\ room.currentRound # 0
  /\ user \in DOMAIN players
  /\ \E r \in CurrentRoundIds :
       /\ InPromptPhase(rounds[r])
       /\ LET existing == {p \in prompts : p.roundId = r /\ p.playerId = user}
              stored == UpsertPrompt(prompts, r, user, trimmedPrompt)
          IN /\ existing # {} \/ Cardinality(prompts) < MaxPrompts
             /\ prompts' = stored
             /\ promptsCompleted' =
                  IF /\ Connected # {}
                     /\ AllPlayersSubmitted(Connected,
                                            {p \in stored : p.roundId = r})
                  THEN promptsCompleted \cup {r} ELSE promptsCompleted
       /\ CanSchedule(jobs, 1)
       /\ jobs' = Schedule(jobs,
                     Job("checkAllPlayersSubmitted", r, 0, 0, "none", "prompt"))
  /\ UNCHANGED <<logicCall, logicResult, room, players, rounds, images, votes, genActive, forced,
                 scoreLog, votesCompleted>>

\* The cancel-and-transition pattern shared by the two player checks: cancel
\* the stored timer, clear the stored handle, run transitionPhase at once.
EarlyTransition(js, r) ==
  LET h == rounds[r].scheduledTransitionId
      js1 == IF h # "none" THEN Cancel(js, r, h) ELSE js
  IN [rounds |-> [rounds EXCEPT ![r].scheduledTransitionId = "none"],
      jobs |-> Schedule(js1, Job("transitionPhase", r, 0, 0, "early",
                                 rounds[r].status))]

CheckAllPlayersSubmitted(j) ==
  /\ Runnable(j, "checkAllPlayersSubmitted")
  /\ LET r == j.roundId IN
     IF /\ rounds[r].status = "prompt"
        /\ Connected # {}
        /\ AllPlayersSubmitted(Connected, PromptsOf(r))
     THEN /\ rounds' = EarlyTransition(Done(jobs, j), r).rounds
          /\ jobs' = EarlyTransition(Done(jobs, j), r).jobs
     ELSE /\ jobs' = Done(jobs, j)
          /\ UNCHANGED rounds
  /\ UNCHANGED <<logicCall, logicResult, room, players, prompts, images, votes, genActive, forced,
                 scoreLog, promptsCompleted, votesCompleted>>

\* ---------------------------------------------------------------- phases
\* Date.now() - (phaseEndTime - phaseDuration), with phaseEndTime relative
TimeInPhase(round) == getPhaseDuration(round.status) - round.phaseEndTime

\* The guard "duplicate_transition_ignored".  phaseEndTime is set on every
\* round, so the truthiness test of the code always passes.
DuplicateTransition(round) ==
  /\ round.status # "generating"
  /\ round.status # "complete"
  /\ TimeInPhase(round) < Ms(MINIMUM_PHASE_DURATION_MS)

\* A switch whose generating case writes "results"
StatusAfterSkipsVoting(status) ==
  CASE status = "prompt" -> "generating"
    [] status = "generating" -> "results"
    [] status = "voting" -> "results"
    [] status = "results" -> "complete"
    [] OTHER -> status

\* The status written by each case of the switch
StatusAfter(status) ==
  CASE status = "prompt" -> "generating"
    [] status = "generating" -> "voting"
    [] status = "voting" -> "results"
    [] status = "results" -> "complete"
    [] OTHER -> status

\* A switch whose generating case schedules scoring as well
CaseJobScoresEarly(status) ==
  CASE status = "prompt" -> "verifyAndTriggerGeneration"
    [] status = "generating" -> "calculateScores"
    [] status = "voting" -> "calculateScores"
    [] OTHER -> "none"

\* A switch whose voting case starts the next round at once
CaseJobStartsNextRound(status) ==
  CASE status = "prompt" -> "verifyAndTriggerGeneration"
    [] status = "voting" -> "startNextRound"
    [] OTHER -> "none"

\* The job a case of the switch schedules besides the next deadline timer
CaseJob(status) ==
  CASE status = "prompt" -> "verifyAndTriggerGeneration"
    [] status = "voting" -> "calculateScores"
    [] OTHER -> "none"

CaseJobDelay(status) == IF status = "prompt" THEN Ms(1000) ELSE 0

\* An expected count of one image per connected player
ExpectedCountConnected(r) == Cardinality(Connected)

\* generationExpectedCount: prompts.length of the round's prompts
ExpectedCount(r) == Cardinality(PromptsOf(r))

\* A switch that resets the completed count in every case
CompletedAfterReset(round) == 0

\* generationCompletedCount after the patch of the case: only the prompt
\* case writes it
CompletedAfter(round) ==
  IF round.status = "prompt" THEN 0 ELSE round.generationCompletedCount

\* A results case that ends the game after every round
FollowUpEndsGame(currentRound) == "endGame"

\* The mutation the results case schedules after marking the round complete
FollowUp(currentRound) ==
  IF currentRound # 0 /\ currentRound < roundsPerGame
  THEN "startNextRound"
  ELSE "endGame"

TransitionPhase(j) ==
  /\ Runnable(j, "transitionPhase")
  /\ LET r == j.roundId
         round == rounds[r]
         js0 == Done(jobs, j)
         \* clear the stored handle, then the patch of the case
         rsC == [rounds EXCEPT ![r].scheduledTransitionId = "none"]
         next == StatusAfter(round.status)
         rsS == [rsC EXCEPT
                   ![r].status = next,
                   ![r].phaseEndTime =
                      IF next = "complete" THEN @ ELSE getPhaseDuration(next),
                   ![r].generationExpectedCount =
                      IF round.status = "prompt" THEN ExpectedCount(r) ELSE @,
                   ![r].generationCompletedCount = CompletedAfter(round)]
         jsJ == IF CaseJob(round.status) = "none" THEN js0
                ELSE Schedule(js0, Job(CaseJob(round.status), r,
                                       CaseJobDelay(round.status), 0, "none", next))
     IN IF DuplicateTransition(round)
        THEN /\ jobs' = js0
             /\ UNCHANGED rounds
        ELSE IF round.status = "complete"
        THEN /\ jobs' = js0
             /\ rounds' = rsC
        ELSE IF round.status = "results"
        THEN /\ rounds' = rsS
             /\ jobs' = Schedule(js0,
                  IF FollowUp(room.currentRound) = "startNextRound"
                  THEN Job("startNextRound", r, Ms(2000), 0, "none", "complete")
                  ELSE Job("endGame", r, 0, 0, "none", "complete"))
        ELSE \* prompt, generating, voting
             /\ CanSchedule(js0, 2)
             /\ rounds' = ScheduleDeadline(jsJ, rsS, r).rounds
             /\ jobs' = ScheduleDeadline(jsJ, rsS, r).jobs
  /\ UNCHANGED <<logicCall, logicResult, room, players, prompts, images, votes, genActive, forced, scoreLog,
                 promptsCompleted, votesCompleted>>

\* ------------------------------------------------------------ generation
\* A check that does not require an expected count above 0
checkAllImagesGeneratedNoFloor(js, rs, r) ==
  LET round == rs[r]
      h == round.scheduledTransitionId
  IN IF /\ round.status = "generating"
        /\ round.generationCompletedCount >= round.generationExpectedCount
     THEN [rounds |-> [rs EXCEPT ![r].scheduledTransitionId = "none"],
           jobs |-> Schedule(IF h # "none" THEN Cancel(js, r, h) ELSE js,
                       Job("transitionPhase", r, Ms(500), 0, "early", "generating"))]
     ELSE [rounds |-> rs, jobs |-> js]

\* checkAllImagesGenerated, run inside the calling mutation
checkAllImagesGenerated(js, rs, r) ==
  LET round == rs[r]
      h == round.scheduledTransitionId
  IN IF /\ round.status = "generating"
        /\ round.generationExpectedCount > 0
        /\ round.generationCompletedCount >= round.generationExpectedCount
     THEN [rounds |-> [rs EXCEPT ![r].scheduledTransitionId = "none"],
           jobs |-> Schedule(IF h # "none" THEN Cancel(js, r, h) ELSE js,
                       Job("transitionPhase", r, Ms(500), 0, "early", "generating"))]
     ELSE [rounds |-> rs, jobs |-> js]

\* incrementGenerationProgress, run inside the calling mutation
incrementGenerationProgress(js, rs, r) ==
  IF rs[r].status # "generating" THEN [rounds |-> rs, jobs |-> js]
  ELSE checkAllImagesGenerated(
         js, [rs EXCEPT ![r].generationCompletedCount = @ + 1], r)

\* A verification that gives up at the first attempt without prompts
RetryNever(retryCount) == FALSE

\* retryCount < maxRetries: the verification is tried again
RetryAgain(retryCount) == retryCount < maxRetries

\* A retry that always waits one second
RetryDelayFixed(retryCount) == Ms(1000)

\* delayMs = (retryCount + 1) * 1000
RetryDelay(retryCount) == Ms((retryCount + 1) * 1000)

VerifyAndTriggerGeneration(j) ==
  /\ Runnable(j, "verifyAndTriggerGeneration")
  /\ LET r == j.roundId
         retryCount == j.retryCount
         js0 == Done(jobs, j)
     IN IF Cardinality(PromptsOf(r)) > 0
        THEN /\ jobs' = Schedule(js0,
                  Job("generateAIImages", r, 0, 0, "none", rounds[r].status))
             /\ UNCHANGED rounds
        ELSE IF RetryAgain(retryCount)
        THEN /\ jobs' = Schedule(js0,
                  Job("verifyAndTriggerGeneration", r, RetryDelay(retryCount),
                      retryCount + 1, "none", rounds[r].status))
             /\ UNCHANGED rounds
        ELSE /\ rounds' = [rounds EXCEPT ![r].generationError = TRUE,
                                         ![r].generationExpectedCount = 0,
                                         ![r].generationCompletedCount = 0]
             /\ jobs' = Schedule(js0,
                  Job("transitionPhase", r, Ms(2000), 0, "failopen", rounds[r].status))
  /\ UNCHANGED <<logicCall, logicResult, room, players, prompts, images, votes, genActive, forced,
                 scoreLog, promptsCompleted, votesCompleted>>

\* The generation collaborator (convex/ai): once started for a round it
\* produces, at any later moment, one image or one error placeholder per
\* prompt and reports each through storeGeneratedImage / storeImageError.
GenerateAIImages(j) ==
  /\ Runnable(j, "generateAIImages")
  /\ jobs' = Done(jobs, j)
  /\ genActive' = genActive \cup {j.roundId}
  /\ UNCHANGED <<logicCall, logicResult, room, players, rounds, prompts, images, votes, forced,
                 scoreLog, promptsCompleted, votesCompleted>>

\* storeGeneratedImage and storeImageError: both insert one image record for
\* the prompt (they differ in its url / error text) and report progress.
StoreImage(r, pl) ==
  /\ r \in genActive
  /\ \E p \in PromptsOf(r) : p.playerId = pl
  /\ \A i \in images : i.promptId # <<r, pl>>
  /\ images' = images \cup {[promptId |-> <<r, pl>>]}
  /\ CanSchedule(jobs, 1)
  /\ rounds' = incrementGenerationProgress(jobs, rounds, r).rounds
  /\ jobs' = incrementGenerationProgress(jobs, rounds, r).jobs
  /\ UNCHANGED <<logicCall, logicResult, room, players, prompts, votes, genActive, forced,
                 scoreLog, promptsCompleted, votesCompleted>>

\* ---------------------------------------------------------------- voting
\* calculateVotingEligibility without the test of the player's status
calculateVotingEligibilityAnyStatus(statusOf, ps) ==
  { [playerId |-> pl,
     isEligible |->
       LET playerSubmittedPrompt == \E p \in ps : p.playerId = pl
           hasOtherPlayersImages == \E p \in ps : p.playerId # pl
       IN IF hasOtherPlayersImages THEN TRUE
          ELSE IF ~playerSubmittedPrompt THEN TRUE
          ELSE FALSE] : pl \in DOMAIN statusOf }

\* gameLogic.calculateVotingEligibility; statusOf maps the player ids passed
\* in to their status
calculateVotingEligibility(statusOf, ps) ==
  { [playerId |-> pl,
     isEligible |->
       IF statusOf[pl] # "connected" THEN FALSE
       ELSE LET playerSubmittedPrompt == \E p \in ps : p.playerId = pl
                hasOtherPlayersImages == \E p \in ps : p.playerId # pl
            IN IF hasOtherPlayersImages THEN TRUE
               ELSE IF ~playerSubmittedPrompt THEN TRUE
               ELSE FALSE] : pl \in DOMAIN statusOf }

\* haveAllEligiblePlayersVoted without the test for no eligible player
haveAllEligiblePlayersVotedVacuous(eligibility, vs) ==
  LET votedPlayerIds == {v.voterId : v \in vs}
      eligiblePlayers == {e \in eligibility : e.isEligible}
  IN \A e \in eligiblePlayers : e.playerId \in votedPlayerIds

\* gameLogic.haveAllEligiblePlayersVoted
haveAllEligiblePlayersVoted(eligibility, vs) ==
  LET votedPlayerIds == {v.voterId : v \in vs}
      eligiblePlayers == {e \in eligibility : e.isEligible}
  IN IF eligiblePlayers = {} THEN FALSE
     ELSE \A e \in eligiblePlayers : e.playerId \in votedPlayerIds

\* A test that compares the number of votes with the number of connected
\* players who have another player's prompt to vote for
AllVotedByCount(r, vs) ==
  /\ Connected # {}
  /\ Cardinality(vs) >=
       Cardinality({pl \in Connected : \E p \in PromptsOf(r) : p.playerId # pl})

\* The test of checkAllPlayersVoted on the votes vs of round r: there are
\* connected players and images, and every eligible voter has a vote
AllVoted(r, vs) ==
  /\ Connected # {}
  /\ Cardinality(ImagesOf(r)) # 0
  /\ haveAllEligiblePlayersVoted(
       calculateVotingEligibility([pl \in Connected |-> players[pl].status],
                                  PromptsOf(r)), vs)

ImageInputs == {<<r, pl>> : r \in 1..roundsPerGame, pl \in Users}

\* The tests of the image without the one that its prompt is of the round
ValidTargetAnyRound(r, user, imageId) ==
  /\ \E i \in images : i.promptId = imageId
  /\ \E p \in prompts : /\ <<p.roundId, p.playerId>> = imageId
                        /\ p.playerId # user

\* The tests submitVote makes of the image named: the image is found, its
\* prompt is of round r, and the prompt is not the voter's own
ValidTarget(r, user, imageId) ==
  /\ \E i \in images : i.promptId = imageId
  /\ \E p \in prompts : /\ <<p.roundId, p.playerId>> = imageId
                        /\ p.roundId = r
                        /\ p.playerId # user

\* A submission that always inserts a new vote
InsertVote(vs, r, user, imageId) ==
  vs \cup {[id |-> NewId(vs), roundId |-> r, voterId |-> user, imageId |-> imageId]}

\* The vote of the voter in the round is patched if there is one, and
\* inserted otherwise
UpsertVote(vs, r, user, imageId) ==
  LET existingVote == {v \in vs : v.roundId = r /\ v.voterId = user}
  IN IF existingVote # {}
     THEN (vs \ existingVote)
            \cup {[v EXCEPT !.imageId = imageId] : v \in existingVote}
     ELSE vs \cup {[id |-> NewId(vs), roundId |-> r, voterId |-> user,
                    imageId |-> imageId]}

\* A phase test that lets a vote in whatever the round's status
InVotingPhaseAlways(round) == TRUE

\* round.status !== "voting" throws "Not in voting phase"
InVotingPhase(round) == round.status = "voting"

SubmitVote(user, imageId) ==
  /\ user \in DOMAIN players
  /\ room.currentRound # 0
  /\ \E r \in CurrentRoundIds :
       /\ InVotingPhase(rounds[r])
       /\ ValidTarget(r, user, imageId)
       /\ LET existingVote == {v \in votes : v.roundId = r /\ v.voterId = user}
              stored == UpsertVote(votes, r, user, imageId)
          IN /\ existingVote # {} \/ Cardinality(votes) < MaxVotes
             /\ votes' = stored
             /\ votesCompleted' =
                  IF AllVoted(r, {v \in stored : v.roundId = r})
                  THEN votesCompleted \cup {r} ELSE votesCompleted
       /\ CanSchedule(jobs, 1)
       /\ jobs' = Schedule(jobs,
                     Job("checkAllPlayersVoted", r, 0, 0, "none", "voting"))
  /\ UNCHANGED <<logicCall, logicResult, room, players, rounds, prompts, images, genActive, forced,
                 scoreLog, promptsCompleted>>

CheckAllPlayersVoted(j) ==
  /\ Runnable(j, "checkAllPlayersVoted")
  /\ LET r == j.roundId
         js0 == Done(jobs, j)
     IN IF rounds[r].status = "voting" /\ AllVoted(r, VotesOf(r))
        THEN /\ rounds' = EarlyTransition(js0, r).rounds
             /\ jobs' = EarlyTransition(js0, r).jobs
        ELSE /\ jobs' = js0
             /\ UNCHANGED rounds
  /\ UNCHANGED <<logicCall, logicResult, room, players, prompts, images, votes, genActive, forced,
                 scoreLog, promptsCompleted, votesCompleted>>

\* --------------------------------------------------------------- scoring
\* The rows of a query result, in some fixed order
RECURSIVE SeqOf(_)
SeqOf(S) ==
  IF S = {} THEN <<>>
  ELSE LET x == CHOOSE y \in S : TRUE IN <<x>> \o SeqOf(S \ {x})

\* gameLogic.countVotesPerImage: the Map as a function imageId -> count
RECURSIVE countVotesPerImage(_, _)
countVotesPerImage(vs, voteCounts) ==
  IF vs = <<>> THEN voteCounts
  ELSE LET imageId == Head(vs).imageId
           count == IF imageId \in DOMAIN voteCounts THEN voteCounts[imageId] ELSE 0
       IN countVotesPerImage(Tail(vs),
            [i \in DOMAIN voteCounts \cup {imageId} |->
               IF i = imageId THEN count + 1 ELSE voteCounts[i]])

EmptyMap == [i \in {} |-> 0]

MaxOf(S) == CHOOSE m \in S : \A n \in S : n <= m

\* findWinningImages without the test maxVotes === 0
findWinningImagesKeepsZero(voteCounts) ==
  IF DOMAIN voteCounts = {} THEN <<>>
  ELSE LET maxVotes == MaxOf({voteCounts[i] : i \in DOMAIN voteCounts})
       IN SeqOf({i \in DOMAIN voteCounts : voteCounts[i] = maxVotes})

\* gameLogic.findWinningImages
findWinningImages(voteCounts) ==
  IF DOMAIN voteCounts = {} THEN <<>>
  ELSE LET maxVotes == MaxOf({voteCounts[i] : i \in DOMAIN voteCounts})
       IN IF maxVotes = 0 THEN <<>>
          ELSE SeqOf({i \in DOMAIN voteCounts : voteCounts[i] = maxVotes})

\* Every winner is given the whole of POINTS_PER_WIN
PointsPerWinnerUnsplit(n) == POINTS_PER_WIN

\* Math.floor(POINTS_PER_WIN / winningImageIds.length)
PointsPerWinner(n) == POINTS_PER_WIN \div n

\* A loop that awards the first winning image only
AwardWinnersFirstOnly(ws, pointsPerWinner, acc) ==
  IF ws = <<>> THEN acc
  ELSE LET owner == Head(ws)[2]
       IN [players |-> [acc.players EXCEPT ![owner].score = @ + pointsPerWinner],
           log |-> Append(acc.log,
                     [roundId |-> Head(ws)[1], playerId |-> owner,
                      points |-> pointsPerWinner, reason |-> "winner"])]

\* The loop over the winning images: acc = [players, log]
RECURSIVE AwardWinners(_, _, _)
AwardWinners(ws, pointsPerWinner, acc) ==
  IF ws = <<>> THEN acc
  ELSE LET imageId == Head(ws)
           owner == imageId[2]
           found == /\ \E i \in images : i.promptId = imageId
                    /\ \E p \in prompts : <<p.roundId, p.playerId>> = imageId
                    /\ owner \in DOMAIN acc.players
       IN AwardWinners(Tail(ws), pointsPerWinner,
            IF ~found THEN acc
            ELSE [players |-> [acc.players EXCEPT ![owner].score = @ + pointsPerWinner],
                  log |-> Append(acc.log,
                            [roundId |-> imageId[1], playerId |-> owner,
                             points |-> pointsPerWinner, reason |-> "winner"])])

\* A loop over the votes that awards every vote record
RECURSIVE AwardVotersPerRecord(_, _, _)
AwardVotersPerRecord(vs, awardedVoterIds, acc) ==
  IF vs = <<>> THEN acc
  ELSE LET vote == Head(vs) IN
       AwardVotersPerRecord(Tail(vs), awardedVoterIds,
         IF vote.voterId \notin DOMAIN acc.players THEN acc
         ELSE [players |-> [acc.players EXCEPT
                              ![vote.voterId].score = @ + POINTS_PER_VOTE],
               log |-> Append(acc.log,
                         [roundId |-> vote.roundId, playerId |-> vote.voterId,
                          points |-> POINTS_PER_VOTE, reason |-> "participation"])])

\* A loop over the votes that writes the participation points as the score
RECURSIVE AwardVotersOverwrites(_, _, _)
AwardVotersOverwrites(vs, awardedVoterIds, acc) ==
  IF vs = <<>> THEN acc
  ELSE LET vote == Head(vs) IN
       IF vote.voterId \in awardedVoterIds
       THEN AwardVotersOverwrites(Tail(vs), awardedVoterIds, acc)
       ELSE AwardVotersOverwrites(Tail(vs), awardedVoterIds \cup {vote.voterId},
              IF vote.voterId \notin DOMAIN acc.players THEN acc
              ELSE [players |-> [acc.players EXCEPT
                                   ![vote.voterId].score = POINTS_PER_VOTE],
                    log |-> Append(acc.log,
                              [roundId |-> vote.roundId, playerId |-> vote.voterId,
                               points |-> POINTS_PER_VOTE, reason |-> "participation"])])

\* The loop over the votes: each voter is awarded once
RECURSIVE AwardVoters(_, _, _)
AwardVoters(vs, awardedVoterIds, acc) ==
  IF vs = <<>> THEN acc
  ELSE LET vote == Head(vs) IN
       IF vote.voterId \in awardedVoterIds
       THEN AwardVoters(Tail(vs), awardedVoterIds, acc)
       ELSE AwardVoters(Tail(vs), awardedVoterIds \cup {vote.voterId},
              IF vote.voterId \notin DOMAIN acc.players THEN acc
              ELSE [players |-> [acc.players EXCEPT
                                   ![vote.voterId].score = @ + POINTS_PER_VOTE],
                    log |-> Append(acc.log,
                              [roundId |-> vote.roundId, playerId |-> vote.voterId,
                               points |-> POINTS_PER_VOTE, reason |-> "participation"])])

\* gameLogic.calculateRoundScores, the loop over the winning images
RECURSIVE WinnerResults(_, _, _, _, _)
WinnerResults(ws, imgs, ps, pointsPerWinner, tie) ==
  IF ws = <<>> THEN <<>>
  ELSE LET imageId == Head(ws)
           rest == WinnerResults(Tail(ws), imgs, ps, pointsPerWinner, tie)
       IN IF ~\E i \in imgs : i.promptId = imageId THEN rest
          ELSE LET image == CHOOSE i \in imgs : i.promptId = imageId
               IN IF ~\E p \in ps : <<p.roundId, p.playerId>> = image.promptId
                  THEN rest
                  ELSE LET prompt == CHOOSE p \in ps :
                                       <<p.roundId, p.playerId>> = image.promptId
                       IN <<[playerId |-> prompt.playerId,
                             pointsAwarded |-> pointsPerWinner,
                             reason |-> IF tie THEN "winner_tie" ELSE "winner"]>>
                          \o rest

\* gameLogic.calculateRoundScores, the loop over the votes
RECURSIVE ParticipationResults(_, _, _)
ParticipationResults(vs, voterPlayerIds, pointsPerVote) ==
  IF vs = <<>> THEN <<>>
  ELSE LET vote == Head(vs) IN
       IF vote.voterId \in voterPlayerIds
       THEN ParticipationResults(Tail(vs), voterPlayerIds, pointsPerVote)
       ELSE <<[playerId |-> vote.voterId, pointsAwarded |-> pointsPerVote,
               reason |-> "participation"]>>
            \o ParticipationResults(Tail(vs), voterPlayerIds \cup {vote.voterId},
                                    pointsPerVote)

\* gameLogic.calculateRoundScores
calculateRoundScores(vs, imgs, ps, config) ==
  LET voteCounts == countVotesPerImage(vs, EmptyMap)
      winningImageIds == findWinningImages(voteCounts)
      winners ==
        IF Len(winningImageIds) > 0
        THEN WinnerResults(winningImageIds, imgs, ps,
                           config.pointsPerWin \div Len(winningImageIds),
                           Len(winningImageIds) > 1)
        ELSE <<>>
  IN winners \o ParticipationResults(vs, {}, config.pointsPerVote)

CalculateScores(j) ==
  /\ Runnable(j, "calculateScores")
  /\ LET r == j.roundId
         vs == SeqOf(VotesOf(r))
         voteCounts == countVotesPerImage(vs, EmptyMap)
         winningImageIds == findWinningImages(voteCounts)
         start == [players |-> players, log |-> scoreLog]
         won == AwardWinners(winningImageIds,
                             PointsPerWinner(Len(winningImageIds)), start)
         done == AwardVoters(vs, {}, won)
     IN IF Len(winningImageIds) = 0
        THEN UNCHANGED <<players, scoreLog>>
        ELSE /\ players' = done.players
             /\ scoreLog' = done.log
  /\ jobs' = Done(jobs, j)
  /\ UNCHANGED <<logicCall, logicResult, room, rounds, prompts, images, votes, genActive, forced,
                 promptsCompleted, votesCompleted>>

\* --------------------------------------------------------------- players
Departed == DOMAIN players \ Connected

LeaveRoom(user) ==
  /\ user \in DOMAIN players
  /\ \/ room.status = "waiting"
     \/ players[user].status # "connected"
     \/ Cardinality(Departed) < MaxDepartures
  /\ LET otherPlayers == Connected \ {user}
         first == CHOOSE o \in otherPlayers : \A q \in otherPlayers : o <= q
         transfer == players[user].isHost /\ room.status = "waiting"
         ps1 == IF transfer /\ otherPlayers # {}
                THEN [players EXCEPT ![first].isHost = TRUE] ELSE players
     IN /\ room' = IF ~transfer THEN room
                   ELSE IF otherPlayers # {} THEN [room EXCEPT !.hostId = first]
                   ELSE [room EXCEPT !.status = "finished"]
        /\ players' = IF room.status = "waiting"
                      THEN [q \in DOMAIN ps1 \ {user} |-> ps1[q]]
                      ELSE [ps1 EXCEPT ![user].status = "disconnected"]
  /\ UNCHANGED <<logicCall, logicResult, rounds, prompts, images, votes, jobs, genActive, forced,
                 scoreLog, promptsCompleted, votesCompleted>>

KickPlayer(user, playerId) ==
  /\ user = room.hostId
  /\ playerId \in DOMAIN players
  /\ ~players[playerId].isHost
  /\ players[playerId].status # "connected" \/ Cardinality(Departed) < MaxDepartures
  /\ players' = [players EXCEPT ![playerId].status = "kicked"]
  /\ UNCHANGED <<logicCall, logicResult, room, rounds, prompts, images, votes, jobs, genActive, forced,
                 scoreLog, promptsCompleted, votesCompleted>>

\* ----------------------------------------------------------- test tooling
ForcePhaseTransition(r) ==
  /\ forced < MaxForced
  /\ CanSchedule(jobs, 1)
  /\ jobs' = Schedule(jobs, Job("transitionPhase", r, 0, 0, "forced", rounds[r].status))
  /\ forced' = forced + 1
  /\ UNCHANGED <<logicCall, logicResult, room, players, rounds, prompts, images, votes, genActive,
                 scoreLog, promptsCompleted, votesCompleted>>

\* ------------------------------------------------------------------ time
Tick ==
  /\ \A j \in DOMAIN jobs : j.due > 0
  /\ jobs' = LET later(j) == [j EXCEPT !.due = @ - 1]
                 sooner(j) == [j EXCEPT !.due = @ + 1]
             IN [k \in {later(j) : j \in DOMAIN jobs} |-> jobs[sooner(k)]]
  /\ rounds' = [k \in DOMAIN rounds |->
                  [rounds[k] EXCEPT !.phaseEndTime = IF @ > 0 THEN @ - 1 ELSE 0]]
  /\ UNCHANGED <<logicCall, logicResult, room, players, prompts, images, votes, genActive, forced,
                 scoreLog, promptsCompleted, votesCompleted>>

Next ==
  \/ \E u \in Users : StartGame(u)
  \/ \E j \in DOMAIN jobs : InitializeGame(j)
  \/ \E j \in DOMAIN jobs : StartNextRound(j)
  \/ \E j \in DOMAIN jobs : EndGame(j)
  \/ \E u \in Users, t \in PromptInputs : SubmitPrompt(u, t)
  \/ \E j \in DOMAIN jobs : CheckAllPlayersSubmitted(j)
  \/ \E j \in DOMAIN jobs : TransitionPhase(j)
  \/ \E j \in DOMAIN jobs : VerifyAndTriggerGeneration(j)
  \/ \E j \in DOMAIN jobs : GenerateAIImages(j)
  \/ \E r \in DOMAIN rounds, pl \in Users : StoreImage(r, pl)
  \/ \E u \in Users, i \in ImageInputs : SubmitVote(u, i)
  \/ \E j \in DOMAIN jobs : CheckAllPlayersVoted(j)
  \/ \E j \in DOMAIN jobs : CalculateScores(j)
  \/ \E u \in Users : LeaveRoom(u)
  \/ \E u \in Users, pl \in Users : KickPlayer(u, pl)
  \/ \E r \in DOMAIN rounds : ForcePhaseTransition(r)
  \/ Tick

Spec == Init /\ [][Next]_vars

\* ------------------------------------------------- the voting of a round
\* The last round of a game of all Users at the moment it entered voting:
\* every player submitted a prompt and every image was generated.  The rounds
\* before it went by without a prompt (fail-open) and without a vote.  From
\* there the players vote and the round is scored.
InitScoring ==
  LET last == roundsPerGame IN
  /\ room = [status |-> "playing", hostId |-> 1, currentRound |-> last]
  /\ players = [p \in Users |->
                  [status |-> "connected", isHost |-> (p = 1), score |-> 0]]
  /\ rounds = [n \in 1..last |->
                 IF n < last
                 THEN [NewRound(n) EXCEPT
                         !.status = "complete",
                         !.phaseEndTime = 0,
                         !.generationError = TRUE]
                 ELSE [NewRound(n) EXCEPT
                         !.status = "voting",
                         !.phaseEndTime = VOTING_PHASE_DURATION,
                         !.scheduledTransitionId = "voting",
                         !.generationExpectedCount = Cardinality(Users),
                         !.generationCompletedCount = Cardinality(Users)]]
  /\ prompts = {[id |-> p, roundId |-> last, playerId |-> p,
                  text |-> <<"c", "a", "t">>] : p \in Users}
  /\ images = {[promptId |-> <<last, p>>] : p \in Users}
  /\ votes = {}
  /\ jobs = SetToBag({Job("transitionPhase", last, VOTING_PHASE_DURATION, 0,
                          "deadline", "voting")})
  /\ genActive = {last}
  /\ forced = 0
  /\ scoreLog = <<>>
  /\ promptsCompleted = {last}
  /\ votesCompleted = {}
  /\ logicCall = NoCall
  /\ logicResult = NoResult

NextScoring ==
  \/ \E u \in Users, i \in ImageInputs : SubmitVote(u, i)
  \/ \E j \in DOMAIN jobs : CheckAllPlayersVoted(j)
  \/ \E j \in DOMAIN jobs : TransitionPhase(j)
  \/ \E j \in DOMAIN jobs : CalculateScores(j)
  \/ \E j \in DOMAIN jobs : EndGame(j)
  \/ Tick

SpecScoring == InitScoring /\ [][NextScoring]_vars

\* ------------------------------------------ the prompt phase of a round
\* The first round as initializeGame leaves it; the players submit and
\* re-submit prompts with different texts until the round leaves the phase.
PromptTexts == PromptInputs \cup {<<" ", "d", "o", "g", " ">>}

InitPrompts ==
  LET sd == ScheduleDeadline(EmptyBag, <<NewRound(1)>>, 1) IN
  /\ room = [status |-> "playing", hostId |-> 1, currentRound |-> 1]
  /\ players = [p \in Members |->
                  [status |-> "connected", isHost |-> (p = 1), score |-> 0]]
  /\ rounds = sd.rounds
  /\ prompts = {}
  /\ images = {}
  /\ votes = {}
  /\ jobs = sd.jobs
  /\ genActive = {}
  /\ forced = 0
  /\ scoreLog = <<>>
  /\ promptsCompleted = {}
  /\ votesCompleted = {}
  /\ logicCall = NoCall
  /\ logicResult = NoResult

NextPrompts ==
  \/ \E u \in Users, t \in PromptTexts : SubmitPrompt(u, t)
  \/ \E j \in DOMAIN jobs : CheckAllPlayersSubmitted(j)
  \/ \E j \in DOMAIN jobs : TransitionPhase(j)
  \/ Tick

SpecPrompts == InitPrompts /\ [][NextPrompts]_vars

\* ------------------------------------------- the functions of gameLogic
\* The pure functions of lib/gameLogic called directly, as its unit tests
\* do, on every input of a bounded set; the game itself stands still.
VoteCountInputs ==
  UNION {[S -> 0..MaxCount] : S \in SUBSET {<<1, p>> : p \in Users}}

PlayerStatuses == {"connected", "disconnected", "kicked"}

PromptSetInputs ==
  SUBSET {[roundId |-> 1, playerId |-> p, text |-> <<"c", "a", "t">>] :
            p \in Users}

EligibilityInputs ==
  {{[playerId |-> p, isEligible |-> f[p]] : p \in Users} :
     f \in [Users -> BOOLEAN]}

\* Votes of round 1, each for the image of the next player
VoterInputs ==
  {{[roundId |-> 1, voterId |-> p, imageId |-> <<1, (p % Cardinality(Users)) + 1>>] :
      p \in S} : S \in SUBSET Users}

LogicInputs ==
  {[fn |-> "findWinningImages", voteCounts |-> vc] : vc \in VoteCountInputs}
  \cup
  {[fn |-> "calculateVotingEligibility", connectedPlayers |-> st, prompts |-> ps] :
     st \in [Users -> PlayerStatuses], ps \in PromptSetInputs}
  \cup
  {[fn |-> "haveAllEligiblePlayersVoted", eligibility |-> el, votes |-> vs] :
     el \in EligibilityInputs, vs \in VoterInputs}

InitLogic ==
  /\ room = [status |-> "waiting", hostId |-> 1, currentRound |-> 0]
  /\ players = [p \in Members |->
                  [status |-> "connected", isHost |-> (p = 1), score |-> 0]]
  /\ rounds = <<>>
  /\ prompts = {}
  /\ images = {}
  /\ votes = {}
  /\ jobs = EmptyBag
  /\ genActive = {}
  /\ forced = 0
  /\ scoreLog = <<>>
  /\ promptsCompleted = {}
  /\ votesCompleted = {}
  /\ logicCall \in LogicInputs
  /\ logicResult = NoResult

Returns(value) ==
  /\ ~logicResult.done
  /\ logicResult' = [done |-> TRUE, value |-> value]
  /\ UNCHANGED <<room, players, rounds, prompts, images, votes, jobs,
                 genActive, forced, scoreLog, promptsCompleted,
                 votesCompleted, logicCall>>

CallFindWinningImages ==
  /\ logicCall.fn = "findWinningImages"
  /\ Returns(findWinningImages(logicCall.voteCounts))

CallCalculateVotingEligibility ==
  /\ logicCall.fn = "calculateVotingEligibility"
  /\ Returns(calculateVotingEligibility(logicCall.connectedPlayers,
                                        logicCall.prompts))

CallHaveAllEligiblePlayersVoted ==
  /\ logicCall.fn = "haveAllEligiblePlayersVoted"
  /\ Returns(haveAllEligiblePlayersVoted(logicCall.eligibility, logicCall.votes))

NextLogic ==
  \/ CallFindWinningImages
  \/ CallCalculateVotingEligibility
  \/ CallHaveAllEligiblePlayersVoted

SpecLogic == InitLogic /\ [][NextLogic]_vars

\* ------------------------------------------- early checks, cancel may throw
\* ctx.scheduler.cancel either cancels the timer or throws
CancelOutcomes == {"cancelled", "throws"}

\* A cancel-and-transition without the try/catch: a throw of cancel ends the
\* mutation, which then writes and schedules nothing
EarlyTransitionUncaught(js, r, outcome) ==
  LET h == rounds[r].scheduledTransitionId
  IN IF h # "none" /\ outcome = "throws"
     THEN [rounds |-> rounds, jobs |-> js]
     ELSE [rounds |-> [rounds EXCEPT ![r].scheduledTransitionId = "none"],
           jobs |-> Schedule(IF h # "none" THEN Cancel(js, r, h) ELSE js,
                             Job("transitionPhase", r, 0, 0, "early", rounds[r].status))]

\* The cancel-and-transition pattern of the two player checks with the
\* outcome of cancel: try { cancel } catch { log }, then clear the stored
\* handle and run transitionPhase at once
EarlyTransitionCaught(js, r, outcome) ==
  LET h == rounds[r].scheduledTransitionId
      js1 == IF h # "none" /\ outcome = "cancelled" THEN Cancel(js, r, h) ELSE js
  IN [rounds |-> [rounds EXCEPT ![r].scheduledTransitionId = "none"],
      jobs |-> Schedule(js1, Job("transitionPhase", r, 0, 0, "early",
                                 rounds[r].status))]

CheckAllPlayersSubmittedCaught(j, outcome) ==
  /\ Runnable(j, "checkAllPlayersSubmitted")
  /\ LET r == j.roundId IN
     IF /\ rounds[r].status = "prompt"
        /\ Connected # {}
        /\ AllPlayersSubmitted(Connected, PromptsOf(r))
     THEN /\ rounds' = EarlyTransitionCaught(Done(jobs, j), r, outcome).rounds
          /\ jobs' = EarlyTransitionCaught(Done(jobs, j), r, outcome).jobs
     ELSE /\ jobs' = Done(jobs, j)
          /\ UNCHANGED rounds
  /\ UNCHANGED <<logicCall, logicResult, room, players, prompts, images, votes, genActive, forced,
                 scoreLog, promptsCompleted, votesCompleted>>

CheckAllPlayersVotedCaught(j, outcome) ==
  /\ Runnable(j, "checkAllPlayersVoted")
  /\ LET r == j.roundId
         js0 == Done(jobs, j)
     IN IF rounds[r].status = "voting" /\ AllVoted(r, VotesOf(r))
        THEN /\ rounds' = EarlyTransitionCaught(js0, r, outcome).rounds
             /\ jobs' = EarlyTransitionCaught(js0, r, outcome).jobs
        ELSE /\ jobs' = js0
             /\ UNCHANGED rounds
  /\ UNCHANGED <<logicCall, logicResult, room, players, prompts, images, votes, genActive, forced,
                 scoreLog, promptsCompleted, votesCompleted>>

\* checkAllImagesGenerated with the outcome of cancel
checkAllImagesGeneratedCaught(js, rs, r, outcome) ==
  LET round == rs[r]
      h == round.scheduledTransitionId
  IN IF /\ round.status = "generating"
        /\ round.generationExpectedCount > 0
        /\ round.generationCompletedCount >= round.generationExpectedCount
     THEN [rounds |-> [rs EXCEPT ![r].scheduledTransitionId = "none"],
           jobs |-> Schedule(IF h # "none" /\ outcome = "cancelled"
                             THEN Cancel(js, r, h) ELSE js,
                       Job("transitionPhase", r, Ms(500), 0, "early", "generating"))]
     ELSE [rounds |-> rs, jobs |-> js]

StoreImageCaught(r, pl, outcome) ==
  /\ r \in genActive
  /\ \E p \in PromptsOf(r) : p.playerId = pl
  /\ \A i \in images : i.promptId # <<r, pl>>
  /\ images' = images \cup {[promptId |-> <<r, pl>>]}
  /\ CanSchedule(jobs, 1)
  /\ LET rs1 == [rounds EXCEPT ![r].generationCompletedCount = @ + 1]
         out == IF rounds[r].status # "generating"
                THEN [rounds |-> rounds, jobs |-> jobs]
                ELSE checkAllImagesGeneratedCaught(jobs, rs1, r, outcome)
     IN /\ rounds' = out.rounds
        /\ jobs' = out.jobs
  /\ UNCHANGED <<logicCall, logicResult, room, players, prompts, votes, genActive, forced,
                 scoreLog, promptsCompleted, votesCompleted>>

\* One round from its prompt phase on, with every cancel free to throw
NextCancel ==
  \/ \E u \in Users, t \in PromptInputs : SubmitPrompt(u, t)
  \/ \E j \in DOMAIN jobs, o \in CancelOutcomes : CheckAllPlayersSubmittedCaught(j, o)
  \/ \E j \in DOMAIN jobs : TransitionPhase(j)
  \/ \E j \in DOMAIN jobs : VerifyAndTriggerGeneration(j)
  \/ \E j \in DOMAIN jobs : GenerateAIImages(j)
  \/ \E r \in DOMAIN rounds, pl \in Users, o \in CancelOutcomes : StoreImageCaught(r, pl, o)
  \/ \E u \in Users, i \in ImageInputs : SubmitVote(u, i)
  \/ \E j \in DOMAIN jobs, o \in CancelOutcomes : CheckAllPlayersVotedCaught(j, o)
  \/ Tick

SpecCancel == InitPrompts /\ [][NextCancel]_vars

\* ------------------------------------------- generation progress handlers
\* markGenerationComplete: stamps generationCompletedAt (not kept here) and
\* runs checkAllImagesGenerated; the collaborator may call it for any round
MarkGenerationComplete(r) ==
  /\ CanSchedule(jobs, 1)
  /\ rounds' = checkAllImagesGenerated(jobs, rounds, r).rounds
  /\ jobs' = checkAllImagesGenerated(jobs, rounds, r).jobs
  /\ UNCHANGED <<logicCall, logicResult, room, players, prompts, images, votes, genActive, forced,
                 scoreLog, promptsCompleted, votesCompleted>>

\* One round from its prompt phase on, with the progress handlers called
\* at any moment
NextGeneration ==
  \/ \E u \in Users, t \in PromptInputs : SubmitPrompt(u, t)
  \/ \E j \in DOMAIN jobs : CheckAllPlayersSubmitted(j)
  \/ \E j \in DOMAIN jobs : TransitionPhase(j)
  \/ \E j \in DOMAIN jobs : VerifyAndTriggerGeneration(j)
  \/ \E j \in DOMAIN jobs : GenerateAIImages(j)
  \/ \E r \in DOMAIN rounds, pl \in Users : StoreImage(r, pl)
  \/ \E r \in DOMAIN rounds : MarkGenerationComplete(r)
  \/ Tick

SpecGeneration == InitPrompts /\ [][NextGeneration]_vars

\* ------------------------------------------- the voting check on request
\* checkAllPlayersVoted run for a round given as argument, at any moment
CheckAllPlayersVotedCalled(r) ==
  /\ CanSchedule(jobs, 1)
  /\ IF rounds[r].status = "voting" /\ AllVoted(r, VotesOf(r))
     THEN /\ rounds' = EarlyTransition(jobs, r).rounds
          /\ jobs' = EarlyTransition(jobs, r).jobs
     ELSE UNCHANGED <<rounds, jobs>>
  /\ UNCHANGED <<logicCall, logicResult, room, players, prompts, images, votes, genActive, forced,
                 scoreLog, promptsCompleted, votesCompleted>>

\* One round from its prompt phase to its scoring, with players leaving and
\* the voting check run at any moment
NextVotingCheck ==
  \/ \E u \in Users, t \in PromptInputs : SubmitPrompt(u, t)
  \/ \E j \in DOMAIN jobs : CheckAllPlayersSubmitted(j)
  \/ \E j \in DOMAIN jobs : TransitionPhase(j)
  \/ \E j \in DOMAIN jobs : VerifyAndTriggerGeneration(j)
  \/ \E j \in DOMAIN jobs : GenerateAIImages(j)
  \/ \E r \in DOMAIN rounds, pl \in Users : StoreImage(r, pl)
  \/ \E u \in Users, i \in ImageInputs : SubmitVote(u, i)
  \/ \E j \in DOMAIN jobs : CheckAllPlayersVoted(j)
  \/ \E r \in DOMAIN rounds : CheckAllPlayersVotedCalled(r)
  \/ \E j \in DOMAIN jobs : CalculateScores(j)
  \/ \E u \in Users : LeaveRoom(u)
  \/ \E u \in Users, pl \in Users : KickPlayer(u, pl)
  \/ Tick

SpecVotingCheck == InitPrompts /\ [][NextVotingCheck]_vars

\* ------------------------------------------------------ the read model
\* A winner flag that does not look at the round's status
IsWinnerAnyStatus(status, voteCount, maxVotes) ==
  voteCount = maxVotes /\ maxVotes > 0

\* isWinner: round.status === "results" && count === maxVotes && maxVotes > 0
IsWinner(status, voteCount, maxVotes) ==
  status = "results" /\ voteCount = maxVotes /\ maxVotes > 0

\* The images of getGameState for the user who asks: empty unless the
\* room's current round is in voting or results; otherwise one entry for
\* every image of every prompt of the round, with its vote count
getGameState(user) ==
  IF room.currentRound = 0 \/ CurrentRoundIds = {} THEN {}
  ELSE LET r == CHOOSE k \in CurrentRoundIds : TRUE
           round == rounds[r]
           votesOfRound == {v \in votes : v.roundId = r}
           voteCounts(imageId) ==
             Cardinality({v \in votesOfRound : v.imageId = imageId})
           maxVotes ==
             MaxOf({voteCounts(v.imageId) : v \in votesOfRound} \cup {0})
       IN IF round.status = "voting" \/ round.status = "results"
          THEN { [_id |-> img.promptId,
                  promptId |-> <<prompt.roundId, prompt.playerId>>,
                  voteCount |-> voteCounts(img.promptId),
                  isWinner |-> IsWinner(round.status, voteCounts(img.promptId),
                                        maxVotes),
                  isOwn |-> user \in DOMAIN players /\ user = prompt.playerId] :
                 <<prompt, img>> \in
                   {pi \in PromptsOf(r) \X images :
                      pi[2].promptId = <<pi[1].roundId, pi[1].playerId>>} }
          ELSE {}

\* The rounds the read model is asked about: a round of two players from
\* its prompt phase on, and the last round of three players from the moment
\* it entered voting; players vote, leave and are kicked
InitReadModel == InitPrompts \/ InitScoring

NextReadModel ==
  \/ \E u \in Users, t \in PromptInputs : SubmitPrompt(u, t)
  \/ \E j \in DOMAIN jobs : CheckAllPlayersSubmitted(j)
  \/ \E j \in DOMAIN jobs : TransitionPhase(j)
  \/ \E j \in DOMAIN jobs : VerifyAndTriggerGeneration(j)
  \/ \E j \in DOMAIN jobs : GenerateAIImages(j)
  \/ \E r \in DOMAIN rounds, pl \in Users : StoreImage(r, pl)
  \/ \E u \in Users, i \in ImageInputs : SubmitVote(u, i)
  \/ \E j \in DOMAIN jobs : CheckAllPlayersVoted(j)
  \/ \E j \in DOMAIN jobs : CalculateScores(j)
  \/ \E j \in DOMAIN jobs : EndGame(j)
  \/ \E u \in Users : LeaveRoom(u)
  \/ \E u \in Users, pl \in Users : KickPlayer(u, pl)
  \/ Tick

SpecReadModel == InitReadModel /\ [][NextReadModel]_vars

\* ================================================================ claims
Statuses == <<"prompt", "generating", "voting", "results", "complete">>
Rank(status) == CHOOSE i \in DOMAIN Statuses : Statuses[i] = status

\* Number of pending jobs of function fn for round r
Pending(js, fn, r) ==
  BagCardinality([j \in {k \in DOMAIN js : k.fn = fn /\ k.roundId = r} |-> js[j]])

\* A step that runs transitionPhase for round r
RunsTransition(r) == \E j \in DOMAIN jobs : j.roundId = r /\ TransitionPhase(j)

\* C1: a round is created in status prompt, and in every step the status of
\* a round either stays or moves to the next status of the chain prompt,
\* generating, voting, results, complete; it moves only in a step that runs
\* transitionPhase for the round.  So no status is skipped or revisited.
C1_StatusFollowsChain ==
  [][ /\ \A r \in DOMAIN rounds :
           /\ r \in DOMAIN rounds'
           /\ \/ rounds'[r].status = rounds[r].status
              \/ /\ Rank(rounds'[r].status) = Rank(rounds[r].status) + 1
                 /\ RunsTransition(r)
      /\ \A r \in DOMAIN rounds' \ DOMAIN rounds : rounds'[r].status = "prompt"
    ]_vars

\* A round that went through the whole chain
C1_Witness == \E r \in DOMAIN rounds : rounds[r].status = "complete"

\* C8: the number of pending calculateScores jobs of a round grows only in
\* the step that moves the round from voting to results, and that step adds
\* exactly one; as a round enters results once, scoring is scheduled once.
C8_ScoresScheduledOnce ==
  [][ \A r \in DOMAIN rounds :
        LET before == Pending(jobs, "calculateScores", r)
            after == Pending(jobs', "calculateScores", r)
            entersResults == /\ rounds[r].status = "voting"
                             /\ rounds'[r].status = "results"
        IN /\ entersResults => after = before + 1
           /\ ~entersResults => after <= before
    ]_vars

\* A round in results whose scoring job is pending
C8_Witness ==
  \E r \in DOMAIN rounds :
    rounds[r].status = "results" /\ Pending(jobs, "calculateScores", r) = 1

\* The round entered its status, by a transitionPhase, less than the minimum
\* dwell time ago
JustAdvanced(round) ==
  /\ round.status \in {"generating", "voting", "results"}
  /\ TimeInPhase(round) < Ms(MINIMUM_PHASE_DURATION_MS)

\* C2: transitionPhase is idempotent within the minimum dwell time: a run of
\* transitionPhase for a round that an earlier run advanced less than the
\* minimum dwell time ago leaves the status of the round as it is and only
\* consumes its own job, so that two runs in quick succession leave the same
\* status and the same scheduled work as one.  Stated for the runs in which
\* no transition is forced by the test tooling.
C2_SecondRunChangesNothing ==
  [][ \A j \in DOMAIN jobs :
        (forced = 0 /\ TransitionPhase(j) /\ JustAdvanced(rounds[j.roundId]))
          => /\ rounds'[j.roundId].status = rounds[j.roundId].status
             /\ jobs' = Done(jobs, j)
    ]_vars

\* C3: of the transitions that early checks request for one phase of a round
\* only one advances the round: a transition requested by an early check
\* that runs when the round has left the phase it was requested for leaves
\* the status as it is.  Stated for the runs in which no transition is
\* forced by the test tooling.
C3_OneAdvancePerRace ==
  [][ \A j \in DOMAIN jobs :
        (forced = 0 /\ TransitionPhase(j) /\ j.origin = "early"
           /\ j.phase # rounds[j.roundId].status)
          => rounds'[j.roundId].status = rounds[j.roundId].status
    ]_vars

\* C4: a deadline timer scheduled for a phase the round has left does not
\* advance the round: when it fires in a later phase the status stays.
C4_SupersededTimerHasNoEffect ==
  [][ \A j \in DOMAIN jobs :
        (TransitionPhase(j) /\ j.origin = "deadline"
           /\ j.phase # rounds[j.roundId].status)
          => rounds'[j.roundId].status = rounds[j.roundId].status
    ]_vars

\* Every connected player has a prompt in round r, and there is one
EveryConnectedSubmitted(pls, ps, r) ==
  LET connected == {pl \in DOMAIN pls : pls[pl].status = "connected"}
  IN /\ connected # {}
     /\ connected \subseteq {p.playerId : p \in {q \in ps : q.roundId = r}}

\* An early check or a transition requested by an early check is pending
EarlyAdvancePending(js, check, r) ==
  \E j \in DOMAIN js :
    /\ j.roundId = r
    /\ j.fn = check \/ (j.fn = "transitionPhase" /\ j.origin = "early")

\* C5: once a submitPrompt has given every connected player a prompt the
\* round goes on to generating without the deadline timer: while the round
\* is still in prompt and every connected player has a prompt, the check of
\* the submissions or the transition it requests is pending.  Stated for
\* the runs in which no transition is forced by the test tooling.
C5_EarlyPromptAdvance ==
  \A r \in DOMAIN rounds :
    (/\ forced = 0
     /\ r \in promptsCompleted
     /\ rounds[r].status = "prompt"
     /\ EveryConnectedSubmitted(players, prompts, r))
      => EarlyAdvancePending(jobs, "checkAllPlayersSubmitted", r)

\* C6: once a submitVote has given every eligible voter a vote, in a round
\* with an image, the round goes on to results without the deadline timer:
\* while the round is still in voting and every eligible voter has a vote,
\* the check of the votes or the transition it requests is pending.  Stated
\* for the runs in which no transition is forced by the test tooling.
C6_EarlyVotingAdvance ==
  \A r \in DOMAIN rounds :
    (/\ forced = 0
     /\ r \in votesCompleted
     /\ rounds[r].status = "voting"
     /\ AllVoted(r, VotesOf(r)))
      => EarlyAdvancePending(jobs, "checkAllPlayersVoted", r)

\* C7: the early advance is requested however the prompts become complete:
\* a step that leaves the prompts unchanged and after which every connected
\* player has a prompt, which was not so before (the last player without a
\* prompt left or was kicked), leaves the check or the transition pending.
C7_EarlyAdvanceOnDeparture ==
  [][ \A r \in DOMAIN rounds :
        (/\ rounds[r].status = "prompt"
         /\ prompts' = prompts
         /\ ~EveryConnectedSubmitted(players, prompts, r)
         /\ EveryConnectedSubmitted(players', prompts', r))
          => EarlyAdvancePending(jobs', "checkAllPlayersSubmitted", r)
    ]_vars

\* ------------------------------------------------------- scoring claims
\* calculateScores has run for round r
Scored(r) ==
  /\ rounds[r].status \in {"results", "complete"}
  /\ Pending(jobs, "calculateScores", r) = 0

VotesFor(r, imageId) == Cardinality({v \in VotesOf(r) : v.imageId = imageId})

\* The images of round r with the most votes
Winners(r) ==
  LET voted == {v.imageId : v \in VotesOf(r)}
  IN {i \in voted : \A o \in voted : VotesFor(r, o) <= VotesFor(r, i)}

\* The entries of the score log of round r with the given reason
Entries(r, reason) ==
  {n \in DOMAIN scoreLog :
     scoreLog[n].roundId = r /\ scoreLog[n].reason = reason}

RECURSIVE SumPoints(_)
SumPoints(ns) ==
  IF ns = {} THEN 0
  ELSE LET n == CHOOSE m \in ns : TRUE IN scoreLog[n].points + SumPoints(ns \ {n})

\* The score of every player is the sum of the points logged for them
ScoresFollowLog ==
  \A p \in DOMAIN players :
    players[p].score = SumPoints({n \in DOMAIN scoreLog : scoreLog[n].playerId = p})

\* C9: when a scored round has k >= 1 images tied for the most votes, the
\* owner of each of them is awarded once, q points, where q is the integer
\* part of POINTS_PER_WIN / k; the win points of the round sum to at most
\* POINTS_PER_WIN, and to POINTS_PER_WIN when k divides it.
C9_WinPointsSplit ==
  /\ ScoresFollowLog
  /\ \A r \in DOMAIN rounds :
       (Scored(r) /\ Winners(r) # {}) =>
         LET k == Cardinality(Winners(r))
             won == Entries(r, "winner")
         IN /\ Cardinality(won) = k
            /\ \A i \in Winners(r) :
                 \E n \in won :
                   /\ scoreLog[n].playerId = i[2]
                   /\ scoreLog[n].points * k <= POINTS_PER_WIN
                   /\ POINTS_PER_WIN < (scoreLog[n].points + 1) * k
            /\ SumPoints(won) <= POINTS_PER_WIN
            /\ POINTS_PER_WIN % k = 0 => SumPoints(won) = POINTS_PER_WIN

\* A scored round with a tie that does not divide POINTS_PER_WIN
C9_Witness ==
  \E r \in DOMAIN rounds :
    /\ Scored(r)
    /\ Cardinality(Winners(r)) > 1
    /\ POINTS_PER_WIN % Cardinality(Winners(r)) # 0
    /\ Entries(r, "winner") # {}

\* C10: in a scored round every distinct voter is awarded POINTS_PER_VOTE
\* exactly once, on top of any win points, and nobody else is; and the
\* award does not depend on how many vote records carry a voter's id:
\* awarding over the vote records taken twice gives the same scores.
C10_ParticipationOnce ==
  /\ ScoresFollowLog
  /\ \A r \in DOMAIN rounds :
       /\ (Scored(r) /\ Winners(r) # {}) =>
            \A p \in DOMAIN players :
              LET mine == {n \in Entries(r, "participation") :
                             scoreLog[n].playerId = p}
              IN /\ Cardinality(mine) =
                      IF \E v \in VotesOf(r) : v.voterId = p THEN 1 ELSE 0
                 /\ \A n \in mine : scoreLog[n].points = POINTS_PER_VOTE
       /\ LET vs == SeqOf(VotesOf(r))
               start == [players |-> players, log |-> <<>>]
           IN AwardVoters(vs \o vs, {}, start) = AwardVoters(vs, {}, start)

\* A scored round whose single winner also voted, with two voters
C10_Witness ==
  \E r \in DOMAIN rounds :
    /\ Scored(r)
    /\ Cardinality({v.voterId : v \in VotesOf(r)}) > 1
    /\ \E p \in DOMAIN players :
         players[p].score = POINTS_PER_WIN + POINTS_PER_VOTE

\* ----------------------------------------------------- gameLogic claims
\* The set of the elements of a sequence
Range(seq) == {seq[n] : n \in DOMAIN seq}

\* C11: findWinningImages returns, each once, exactly the images of the
\* count map whose count is the largest of the map and is not zero: every
\* image tied for the maximum, none below it, nothing for the empty map
\* and nothing when the maximum is zero.
C11_WinnersAreTheMaxima ==
  (logicCall.fn = "findWinningImages" /\ logicResult.done) =>
    LET voteCounts == logicCall.voteCounts
        winners == logicResult.value
    IN /\ Len(winners) = Cardinality(Range(winners))
       /\ Range(winners) \subseteq DOMAIN voteCounts
       /\ \A i \in DOMAIN voteCounts :
            i \in Range(winners) <=>
              /\ voteCounts[i] > 0
              /\ \A o \in DOMAIN voteCounts : voteCounts[o] <= voteCounts[i]

\* The result for a map with two images tied above a third
C11_Witness ==
  /\ logicCall.fn = "findWinningImages"
  /\ logicResult.done
  /\ Len(logicResult.value) = 2
  /\ \E i \in DOMAIN logicCall.voteCounts :
       /\ i \notin Range(logicResult.value)
       /\ logicCall.voteCounts[i] > 0

\* C12: calculateVotingEligibility gives one verdict per player passed in.
\* A player who is not connected is ineligible; a connected player is
\* eligible when another player's submission exists; a connected player
\* whose own submission is the only one is ineligible; a connected player
\* without a submission is eligible when any submission exists.
C12_Eligibility ==
  (logicCall.fn = "calculateVotingEligibility" /\ logicResult.done) =>
    LET statusOf == logicCall.connectedPlayers
        submitters == {p.playerId : p \in logicCall.prompts}
        verdicts == logicResult.value
    IN /\ {e.playerId : e \in verdicts} = DOMAIN statusOf
       /\ Cardinality(verdicts) = Cardinality(DOMAIN statusOf)
       /\ \A e \in verdicts :
            LET pl == e.playerId IN
            /\ statusOf[pl] # "connected" => ~e.isEligible
            /\ (statusOf[pl] = "connected" /\ submitters \ {pl} # {})
                 => e.isEligible
            /\ (statusOf[pl] = "connected" /\ submitters = {pl})
                 => ~e.isEligible
            /\ (statusOf[pl] = "connected" /\ pl \notin submitters
                  /\ submitters # {}) => e.isEligible

\* The verdicts for a lone submitter, a connected player without a
\* submission and a player who is not connected
C12_Witness ==
  /\ logicCall.fn = "calculateVotingEligibility"
  /\ logicResult.done
  /\ Cardinality(logicCall.prompts) = 1
  /\ \E a, b, c \in DOMAIN logicCall.connectedPlayers :
       /\ logicCall.connectedPlayers[a] = "connected"
       /\ a \in {p.playerId : p \in logicCall.prompts}
       /\ logicCall.connectedPlayers[b] = "connected" /\ b # a
       /\ logicCall.connectedPlayers[c] = "kicked"
       /\ [playerId |-> a, isEligible |-> FALSE] \in logicResult.value
       /\ [playerId |-> b, isEligible |-> TRUE] \in logicResult.value
       /\ [playerId |-> c, isEligible |-> FALSE] \in logicResult.value

\* C13: haveAllEligiblePlayersVoted returns true exactly when some player is
\* eligible and every eligible player has a vote; whether the ineligible
\* players voted makes no difference, and with no eligible player the
\* result is false.
C13_AllEligibleVoted ==
  (logicCall.fn = "haveAllEligiblePlayersVoted" /\ logicResult.done) =>
    LET eligible == {e.playerId : e \in {x \in logicCall.eligibility : x.isEligible}}
        voters == {v.voterId : v \in logicCall.votes}
    IN logicResult.value <=> (eligible # {} /\ eligible \subseteq voters)

\* True is returned although an ineligible player has no vote
C13_Witness ==
  /\ logicCall.fn = "haveAllEligiblePlayersVoted"
  /\ logicResult.done
  /\ logicResult.value
  /\ \E e \in logicCall.eligibility :
       /\ ~e.isEligible
       /\ \A v \in logicCall.votes : v.voterId # e.playerId

\* ---------------------------------------------------- submission claims
\* C14: every stored vote names an image that exists and whose prompt is of
\* the round of the vote and of a player other than the voter.  A submitVote
\* that names the voter's own image or an image of another round therefore
\* stores nothing, re-votes included.
C14_VotesTargetOthersImages ==
  \A v \in votes :
    /\ \E i \in images : i.promptId = v.imageId
    /\ \E p \in prompts :
         /\ <<p.roundId, p.playerId>> = v.imageId
         /\ p.roundId = v.roundId
         /\ p.playerId # v.voterId

\* A vote is stored in a round while an image of an earlier round, not the
\* voter's own, exists: only the test of the round keeps it from the votes
C14_Witness ==
  \E v \in votes :
    \E i \in images :
      /\ i.promptId[1] # v.roundId
      /\ i.promptId[2] # v.voterId
      /\ rounds[v.roundId].status = "voting"

\* C15: there is at most one prompt per round and player, and no two
\* prompts share an id.  Every step keeps each prompt, with its id, round
\* and player; a submitPrompt leaves the trimmed text submitted as the text
\* of the prompt of the player in the current round, so a re-submission
\* overwrites the text of the existing prompt and creates no second one.
C15_OnePromptPerPlayer ==
  [][ /\ \A p, q \in prompts' :
           \/ p = q
           \/ p.id # q.id /\ <<p.roundId, p.playerId>> # <<q.roundId, q.playerId>>
      /\ \A p \in prompts :
           \E q \in prompts' :
             q.id = p.id /\ q.roundId = p.roundId /\ q.playerId = p.playerId
      /\ \A u \in Users, t \in PromptTexts :
           SubmitPrompt(u, t) =>
             \E q \in prompts' :
               /\ q.playerId = u
               /\ q.roundId \in CurrentRoundIds
               /\ q.text = Trim(t)
    ]_vars

\* Both players have a prompt, with different texts, and three submissions
\* were made: one of them was a re-submission
C15_Witness ==
  /\ Cardinality(prompts) = 2
  /\ \E p, q \in prompts : p.text # q.text
  /\ \E r \in DOMAIN rounds : Pending(jobs, "checkAllPlayersSubmitted", r) > 2

\* C16: there is at most one vote per round and voter, and no two votes
\* share an id.  Every step keeps each vote, with its id, round and voter;
\* a submitVote leaves the image named as the target of the vote of the
\* voter in the current round, so a re-vote overwrites the target of the
\* existing vote and creates no second one.
C16_OneVotePerVoter ==
  [][ /\ \A v, w \in votes' :
           \/ v = w
           \/ v.id # w.id /\ <<v.roundId, v.voterId>> # <<w.roundId, w.voterId>>
      /\ \A v \in votes :
           \E w \in votes' :
             w.id = v.id /\ w.roundId = v.roundId /\ w.voterId = v.voterId
      /\ \A u \in Users, i \in ImageInputs :
           SubmitVote(u, i) =>
             \E w \in votes' :
               /\ w.voterId = u
               /\ w.roundId \in CurrentRoundIds
               /\ w.imageId = i
    ]_vars

\* Two voters have a vote and three submissions were made: one of them was
\* a re-vote
C16_Witness ==
  /\ Cardinality(votes) = 2
  /\ \E r \in DOMAIN rounds : Pending(jobs, "checkAllPlayersVoted", r) > 2

PendingFn(js, fn) ==
  BagCardinality([j \in {k \in DOMAIN js : k.fn = fn} |-> js[j]])

\* C18: the step that takes a round from results to complete schedules
\* exactly one follow-up, startNextRound when the room's current round number
\* is below roundsPerGame and endGame otherwise; no other step schedules
\* either of them, and a transitionPhase run on a complete round schedules
\* nothing.  So a room never has more than roundsPerGame rounds, and endGame
\* is scheduled only when the round numbered roundsPerGame completes.
C18_OneFollowUp ==
  [][ LET moreNext == PendingFn(jobs', "startNextRound") - PendingFn(jobs, "startNextRound")
          moreEnd == PendingFn(jobs', "endGame") - PendingFn(jobs, "endGame")
          completing == {r \in DOMAIN rounds :
                           rounds[r].status = "results" /\ rounds'[r].status = "complete"}
      IN /\ \A r \in completing :
              /\ RunsTransition(r)
              /\ IF room.currentRound < roundsPerGame
                 THEN moreNext = 1 /\ moreEnd = 0
                 ELSE moreNext = 0 /\ moreEnd = 1
         /\ completing = {} => (moreNext <= 0 /\ moreEnd <= 0)
         /\ \A j \in DOMAIN jobs :
              (TransitionPhase(j) /\ rounds[j.roundId].status = "complete") =>
                 jobs' = Done(jobs, j)
         /\ moreEnd > 0 =>
              \E r \in completing : rounds[r].roundNumber = roundsPerGame
         /\ Len(rounds') <= roundsPerGame
    ]_vars

\* The last round is complete with endGame pending, after an earlier round
\* was followed by startNextRound
C18_Witness ==
  /\ Len(rounds) = roundsPerGame
  /\ rounds[roundsPerGame].status = "complete"
  /\ PendingFn(jobs, "endGame") = 1
  /\ PendingFn(jobs, "startNextRound") = 0

\* The k-th round created in the room carries the number k
NumbersSequential == \A k \in DOMAIN rounds : rounds[k].roundNumber = k

\* C19 as stated: the rounds of the room carry the numbers 1..k without
\* duplicate or gap, and the room's currentRound equals k in every state
\* (currentRound is unset, 0 here, while there is no round).
C19_CurrentRoundIsLast ==
  /\ NumbersSequential
  /\ room.currentRound = Len(rounds)

\* C19: the rounds of the room carry the numbers 1..k without duplicate or
\* gap; once the room has a round its currentRound equals k, the number of
\* the round created last; before that currentRound is unset while the room
\* waits and is 1 from startGame on.
C19_RoundNumbers ==
  /\ NumbersSequential
  /\ Len(rounds) > 0 => room.currentRound = Len(rounds)
  /\ Len(rounds) = 0 => room.currentRound \in {0, 1}
  /\ room.status = "waiting" => room.currentRound = 0
  /\ room.status = "starting" => (room.currentRound = 1 /\ Len(rounds) = 0)

\* The second round exists and is the current one
C19_Witness ==
  /\ Len(rounds) = 2
  /\ room.currentRound = 2

\* The rounds of the room whose status is not complete
OpenRounds == {r \in DOMAIN rounds : rounds[r].status # "complete"}

\* C20 as stated: while the room's status is playing, exactly one round of
\* the room has a status other than complete.
C20_ExactlyOneOpenRound ==
  room.status = "playing" => Cardinality(OpenRounds) = 1

\* C20: at most one round of the room has a status other than complete, and
\* it is the round created last.  While the room's status is playing there
\* is exactly one, except between the completion of a round and the run of
\* the follow-up it scheduled: then every round is complete and one
\* startNextRound or endGame job is pending.
C20_AtMostOneOpenRound ==
  /\ Cardinality(OpenRounds) <= 1
  /\ OpenRounds \subseteq {Len(rounds)}
  /\ (room.status = "playing" /\ OpenRounds = {}) =>
       /\ Len(rounds) > 0
       /\ PendingFn(jobs, "startNextRound") + PendingFn(jobs, "endGame") = 1

\* The second round is open while the room plays, the first is complete
C20_Witness ==
  /\ room.status = "playing"
  /\ Len(rounds) = 2
  /\ OpenRounds = {2}

\* ------------------------------------------------------ room status claims
RoomStatuses == <<"waiting", "starting", "playing", "finished">>
RoomRank(status) == CHOOSE i \in DOMAIN RoomStatuses : RoomStatuses[i] = status

\* The round numbered roundsPerGame exists and is complete
LastRoundComplete ==
  /\ Len(rounds) = roundsPerGame
  /\ rounds[roundsPerGame].status = "complete"

\* C21: the room's status is one of waiting, starting, playing, finished and
\* no step moves it to an earlier one of them; from the creation of round 1
\* until the last round of the game is complete the status is playing.
C21_RoomStatusForward ==
  [][ /\ room'.status \in Range(RoomStatuses)
      /\ RoomRank(room'.status) >= RoomRank(room.status)
      /\ (Len(rounds') > 0 /\ ~LastRoundComplete') => room'.status = "playing"
    ]_vars

\* The room is finished after its last round completed
C21_Witness ==
  /\ room.status = "finished"
  /\ LastRoundComplete

\* C22: startGame called by a user who is not the host, on a room that is not
\* waiting, or with fewer than 2 connected players is rejected (the mutation
\* throws, so nothing is written and nothing scheduled).  A step that adds an
\* initializeGame job is a startGame of the host on a waiting room with at
\* least 2 connected players and takes the room out of waiting, to which it
\* never returns; so initializeGame is scheduled at most once per room.
C22_StartGameRejected ==
  [][ /\ \A user \in Users :
           (\/ user # room.hostId
            \/ room.status # "waiting"
            \/ Cardinality(Connected) < 2) => ~ENABLED StartGame(user)
      /\ PendingFn(jobs', "initializeGame") > PendingFn(jobs, "initializeGame") =>
           /\ StartGame(room.hostId)
           /\ room.status = "waiting"
           /\ Cardinality(Connected) >= 2
           /\ room'.status = "starting"
           /\ PendingFn(jobs', "initializeGame") = 1
      /\ room.status # "waiting" => room'.status # "waiting"
    ]_vars

\* The game was started, and every further startGame is rejected
C22_Witness ==
  /\ room.status = "starting"
  /\ PendingFn(jobs, "initializeGame") = 1
  /\ \A user \in Users : ~ENABLED StartGame(user)

\* ------------------------------------------------------------ score claims
\* Sum of the points of the entries ns of a score log
RECURSIVE SumOf(_, _)
SumOf(log, ns) ==
  IF ns = {} THEN 0
  ELSE LET n == CHOOSE m \in ns : TRUE IN log[n].points + SumOf(log, ns \ {n})

\* C23: no step lowers the score of a player.  The score changes only in a
\* run of calculateScores; every award of that run is a non-negative amount
\* and the new score is the stored one plus the awards made to the player.
C23_ScoreNeverDecreases ==
  [][ LET added == (Len(scoreLog) + 1)..Len(scoreLog')
      IN /\ \A n \in added : scoreLog'[n].points >= 0
         /\ \A p \in DOMAIN players \cap DOMAIN players' :
              /\ players'[p].score >= players[p].score
              /\ players'[p].score # players[p].score =>
                   \E j \in DOMAIN jobs : CalculateScores(j)
              /\ players'[p].score =
                   players[p].score
                     + SumOf(scoreLog', {n \in added : scoreLog'[n].playerId = p})
    ]_vars

\* A player was awarded in the first round and again in the second
C23_Witness ==
  \E p \in DOMAIN players :
    /\ \E n \in DOMAIN scoreLog : scoreLog[n].playerId = p /\ scoreLog[n].roundId = 1
    /\ \E n \in DOMAIN scoreLog : scoreLog[n].playerId = p /\ scoreLog[n].roundId = 2
    /\ players[p].score > POINTS_PER_VOTE

\* C24: a run of calculateScores for a round without votes completes (the
\* job is consumed, nothing is thrown) and leaves every player's score and
\* the record of awards as they were.
C24_NoVotesNoAward ==
  [][ \A j \in DOMAIN jobs :
        (Runnable(j, "calculateScores") /\ {v \in votes : v.roundId = j.roundId} = {}) =>
          /\ ENABLED CalculateScores(j)
          /\ CalculateScores(j) =>
               /\ players' = players
               /\ scoreLog' = scoreLog
               /\ jobs' = Done(jobs, j)
    ]_vars

\* The second round was scored without votes after the first had votes
C24_Witness ==
  /\ Len(rounds) = 2
  /\ Scored(2)
  /\ {v \in votes : v.roundId = 2} = {}
  /\ {v \in votes : v.roundId = 1} # {}

\* ------------------------------------------------------ transition claims
\* The statuses in which a round is in a phase
Phases == {"prompt", "generating", "voting", "results"}

\* C25: a run of transitionPhase on a round that has been in its phase for
\* less than the minimum dwell time changes nothing in any phase: the round
\* keeps its status, phaseEndTime and stored timer handle, and the pending
\* jobs are those of before without the job that ran.  (Stated for the runs
\* without transitions forced by the test tooling.)
C25_DwellGuardNoOp ==
  [][ forced = 0 =>
        \A j \in DOMAIN jobs :
          (/\ TransitionPhase(j)
           /\ rounds[j.roundId].status \in Phases
           /\ TimeInPhase(rounds[j.roundId]) < Ms(MINIMUM_PHASE_DURATION_MS)) =>
             /\ rounds'[j.roundId] = rounds[j.roundId]
             /\ jobs' = Done(jobs, j)
    ]_vars

\* C26: in every state a round in one of the phases prompt, generating,
\* voting, results has at least one pending transitionPhase job; in
\* particular after an early check cancelled the phase timer.  (Stated for
\* the runs without transitions forced by the test tooling.)
C26_TransitionAlwaysPending ==
  forced = 0 =>
    \A r \in DOMAIN rounds :
      rounds[r].status \in Phases => Pending(jobs, "transitionPhase", r) > 0

\* C27: every round that is created reaches status complete and every room
\* whose game was started reaches status finished, whatever the players do,
\* provided every pending job eventually runs.  Stated so that a finite run
\* refutes it: while the game is started and not finished some job is
\* pending; in a state without one nothing runs until a player acts, so with
\* players who do nothing more the round and the room stay as they are.
\* (Stated for the runs without transitions forced by the test tooling.)
C27_GameNeverStalls ==
  (forced = 0 /\ room.status \in {"starting", "playing"}) =>
    BagCardinality(jobs) > 0

\* The pending deadline timers of round r with handle h
DeadlineJobs(js, r, h) ==
  {j \in DOMAIN js : /\ j.fn = "transitionPhase" /\ j.origin = "deadline"
                     /\ j.roundId = r /\ j.phase = h}

\* Round r enters a phase in this step: it is created, or its status
\* changes to generating, voting or results
EntersPhase(r) ==
  /\ r \in DOMAIN rounds'
  /\ \/ r \notin DOMAIN rounds
     \/ /\ rounds'[r].status # rounds[r].status
        /\ rounds'[r].status \in {"generating", "voting", "results"}

\* C28: after the step that creates a round, and after every step that
\* moves a round into generating, voting or results, the round's
\* scheduledTransitionId is the handle of the deadline timer scheduled in
\* that step for the new phase: a timer that was not pending before, is
\* pending now, and is due at the end of the new phase.
C28_HandleOfNewDeadline ==
  [][ \A r \in DOMAIN rounds' :
        EntersPhase(r) =>
          LET h == rounds'[r].scheduledTransitionId
          IN /\ h = rounds'[r].status
             /\ DeadlineJobs(jobs, r, h) = {}
             /\ \E j \in DeadlineJobs(jobs', r, h) :
                  /\ DeadlineJobs(jobs', r, h) = {j}
                  /\ jobs'[j] = 1
                  /\ j.due = getPhaseDuration(rounds'[r].status)
                  /\ rounds'[r].phaseEndTime = j.due
    ]_vars

\* The second round is in results with its results timer stored
C28_Witness ==
  /\ Len(rounds) = 2
  /\ rounds[2].status = "results"
  /\ rounds[2].scheduledTransitionId = "results"
  /\ DeadlineJobs(jobs, 2, "results") # {}

\* The pending deadline timers that are gone after this step without having
\* run in it
CancelledTimers ==
  {k \in DOMAIN jobs : /\ k.origin = "deadline"
                       /\ (k \notin DOMAIN jobs' \/ jobs'[k] < jobs[k])
                       /\ ~TransitionPhase(k)}

\* C29: the handle stored on a round is never that of another phase than
\* the round's current one.  A step that cancels a deadline timer cancels
\* only the timer whose handle the round stores, which is the deadline timer
\* of the round's current phase, the phase the early check has verified; it
\* clears the stored handle and requests the transition.  So no deadline
\* timer of a later phase is ever cancelled.
C29_CancelsOnlyCurrentTimer ==
  [][ /\ \A r \in DOMAIN rounds :
           rounds[r].scheduledTransitionId \in {"none", rounds[r].status}
      /\ ~Tick =>
           \A k \in CancelledTimers :
             /\ k.phase = rounds[k.roundId].scheduledTransitionId
             /\ k.phase = rounds[k.roundId].status
             /\ rounds'[k.roundId].status = rounds[k.roundId].status
             /\ rounds'[k.roundId].scheduledTransitionId = "none"
             /\ Pending(jobs', "transitionPhase", k.roundId)
                  = Pending(jobs, "transitionPhase", k.roundId)
    ]_vars

\* An early check has cancelled the voting timer of a round while a timer of
\* an earlier phase of that round is still pending
C29_Witness ==
  \E r \in DOMAIN rounds :
    /\ rounds[r].status = "voting"
    /\ rounds[r].scheduledTransitionId = "none"
    /\ DeadlineJobs(jobs, r, "voting") = {}
    /\ DeadlineJobs(jobs, r, "generating") # {}
    /\ \E j \in DOMAIN jobs :
         j.fn = "transitionPhase" /\ j.roundId = r /\ j.origin = "early"

\* Number of pending transitions requested early for round r
EarlyJobs(js, r) ==
  BagCardinality([j \in {k \in DOMAIN js : /\ k.fn = "transitionPhase"
                                           /\ k.origin = "early"
                                           /\ k.roundId = r} |-> js[j]])

\* The early check clears the stored handle of round r and requests one
\* transition in this step; what the players stored is untouched
ClearsAndRequests(r) ==
  /\ rounds'[r].scheduledTransitionId = "none"
  /\ rounds'[r].status = rounds[r].status
  /\ EarlyJobs(jobs', r) = EarlyJobs(jobs, r) + 1
  /\ prompts' = prompts
  /\ votes' = votes

\* C30: an early check that finds its condition met clears the stored timer
\* handle and requests the transition whether the cancel of the stored
\* handle succeeds or throws; the check runs to its end in both cases (it is
\* a scheduled mutation of its own, so nothing is thrown to the player whose
\* submission scheduled it).
C30_CancelFailureTolerated ==
  [][ \A o \in CancelOutcomes :
        /\ \A j \in DOMAIN jobs :
             /\ Runnable(j, "checkAllPlayersSubmitted") =>
                  ENABLED CheckAllPlayersSubmittedCaught(j, o)
             /\ Runnable(j, "checkAllPlayersVoted") =>
                  ENABLED CheckAllPlayersVotedCaught(j, o)
             /\ (/\ CheckAllPlayersSubmittedCaught(j, o)
                 /\ rounds[j.roundId].status = "prompt"
                 /\ Connected # {}
                 /\ \A p \in Connected : \E q \in prompts :
                      q.roundId = j.roundId /\ q.playerId = p) =>
                  /\ ClearsAndRequests(j.roundId)
                  /\ (IF j \in DOMAIN jobs' THEN jobs'[j] ELSE 0) = jobs[j] - 1
             /\ (/\ CheckAllPlayersVotedCaught(j, o)
                 /\ rounds[j.roundId].status = "voting"
                 /\ AllVoted(j.roundId, VotesOf(j.roundId))) =>
                  ClearsAndRequests(j.roundId)
        /\ \A r \in DOMAIN rounds, pl \in Users :
             (/\ StoreImageCaught(r, pl, o)
              /\ rounds[r].status = "generating"
              /\ rounds[r].generationExpectedCount > 0
              /\ rounds[r].generationCompletedCount + 1
                   >= rounds[r].generationExpectedCount) =>
               ClearsAndRequests(r)
    ]_vars

\* A check has requested the transition of a round in voting although the
\* cancel threw: the handle is cleared and the voting timer is still pending
C30_Witness ==
  \E r \in DOMAIN rounds :
    /\ rounds[r].status = "voting"
    /\ rounds[r].scheduledTransitionId = "none"
    /\ EarlyJobs(jobs, r) > 0
    /\ DeadlineJobs(jobs, r, "voting") # {}

\* ---------------------------------------------------- frozen input claims
\* C31: submitPrompt of a valid text is rejected for every caller while the room's
\* current round is not in status prompt, and no step changes the prompts of
\* a round that is not in prompt or schedules a submission check for it; so
\* the prompts of a round are those it had when it left prompt.
C31_PromptsFrozen ==
  [][ /\ (\A r \in CurrentRoundIds : rounds[r].status # "prompt") =>
           \A u \in Users : ~ENABLED SubmitPrompt(u, <<"c", "a", "t">>)
      /\ \A r \in DOMAIN rounds :
           rounds[r].status # "prompt" =>
             /\ {p \in prompts' : p.roundId = r} = PromptsOf(r)
             /\ Pending(jobs', "checkAllPlayersSubmitted", r)
                  <= Pending(jobs, "checkAllPlayersSubmitted", r)
    ]_vars

\* A round has left prompt with the prompt of one member only, and the
\* other member is still connected
C31_Witness ==
  \E r \in DOMAIN rounds :
    /\ rounds[r].status = "voting"
    /\ Cardinality(PromptsOf(r)) = 1
    /\ Connected = Members

\* C32: submitVote is rejected for every caller and image while the room's
\* current round is not in status voting, and no step changes the votes of a
\* round that is not in voting or schedules a vote check for it.  A pending
\* calculateScores belongs to a round that has left voting, so the votes it
\* reads when it runs are those the round had at the voting to results
\* transition that scheduled it.
C32_VotesFrozen ==
  [][ /\ (\A r \in CurrentRoundIds : rounds[r].status # "voting") =>
           \A u \in Users, i \in ImageInputs : ~ENABLED SubmitVote(u, i)
      /\ \A r \in DOMAIN rounds :
           /\ rounds[r].status # "voting" =>
                /\ {v \in votes' : v.roundId = r} = {v \in votes : v.roundId = r}
                /\ Pending(jobs', "checkAllPlayersVoted", r)
                     <= Pending(jobs, "checkAllPlayersVoted", r)
           /\ Pending(jobs, "calculateScores", r) > 0 =>
                rounds[r].status \in {"results", "complete"}
           /\ Pending(jobs', "calculateScores", r) > Pending(jobs, "calculateScores", r) =>
                /\ rounds[r].status = "voting"
                /\ rounds'[r].status = "results"
                /\ votes' = votes
    ]_vars

\* calculateScores is pending for a round in results that has votes
C32_Witness ==
  \E r \in DOMAIN rounds :
    /\ rounds[r].status = "results"
    /\ Pending(jobs, "calculateScores", r) = 1
    /\ Cardinality({v \in votes : v.roundId = r}) >= 2

\* ------------------------------------------------------ generation claims
\* C33: the step that moves a round from prompt to generating sets its
\* generationExpectedCount to the number of prompts of the round and its
\* generationCompletedCount to 0; in every state of a round that has left
\* prompt, generationExpectedCount is the number of prompts stored for the
\* round, also after the fail-open path has written 0.
C33_ExpectedCountIsPromptCount ==
  [][ \A r \in DOMAIN rounds :
        /\ (rounds[r].status = "prompt" /\ rounds'[r].status = "generating") =>
             /\ rounds'[r].generationExpectedCount = Cardinality(PromptsOf(r))
             /\ rounds'[r].generationCompletedCount = 0
        /\ rounds'[r].status # "prompt" =>
             rounds'[r].generationExpectedCount
               = Cardinality({p \in prompts' : p.roundId = r})
    ]_vars

\* A round with one prompt has its image, and a round that took the
\* fail-open path expects none
C33_Witness ==
  /\ Len(rounds) = 2
  /\ rounds[1].generationExpectedCount = 1
  /\ rounds[1].generationCompletedCount = 1
  /\ rounds[2].generationError
  /\ rounds[2].generationExpectedCount = 0
  /\ rounds[2].status = "voting"

\* The condition of the early transition to voting, on a round record
GenerationDone(round) ==
  /\ round.status = "generating"
  /\ round.generationExpectedCount > 0
  /\ round.generationCompletedCount >= round.generationExpectedCount

\* This step requests no transition for round r and leaves its stored
\* handle and the pending deadline timers of the round alone
NothingRequested(r) ==
  /\ EarlyJobs(jobs', r) = EarlyJobs(jobs, r)
  /\ rounds'[r].scheduledTransitionId = rounds[r].scheduledTransitionId
  /\ \A h \in Phases : DeadlineJobs(jobs', r, h) = DeadlineJobs(jobs, r, h)

\* This step requests one transition for round r, clears the stored handle
\* and leaves no deadline timer of the current phase pending
TransitionRequested(r) ==
  /\ EarlyJobs(jobs', r) = EarlyJobs(jobs, r) + 1
  /\ rounds'[r].scheduledTransitionId = "none"
  /\ DeadlineJobs(jobs', r, rounds[r].status) = {}

\* C34: a run of a generation progress handler requests the early
\* transition to voting exactly when the round is in generating, its
\* generationExpectedCount is above 0 and its generationCompletedCount
\* (counting the image just reported) has reached it; with an expected count
\* of 0, or in another status, it requests nothing and cancels no timer.
C34_EarlyVotingCondition ==
  [][ \A r \in DOMAIN rounds :
        /\ \A pl \in Users :
             StoreImage(r, pl) =>
               LET seen == IF rounds[r].status = "generating"
                           THEN [rounds[r] EXCEPT !.generationCompletedCount = @ + 1]
                           ELSE rounds[r]
               IN IF GenerationDone(seen)
                  THEN TransitionRequested(r) ELSE NothingRequested(r)
        /\ MarkGenerationComplete(r) =>
             IF GenerationDone(rounds[r])
             THEN TransitionRequested(r) ELSE NothingRequested(r)
    ]_vars

\* The last image of a round has been reported and the transition to voting
\* is requested
C34_Witness ==
  \E r \in DOMAIN rounds :
    /\ rounds[r].status = "generating"
    /\ rounds[r].generationExpectedCount = 2
    /\ rounds[r].generationCompletedCount = 2
    /\ rounds[r].scheduledTransitionId = "none"
    /\ EarlyJobs(jobs, r) = 1

\* C35: the step that takes a round from generating to voting writes only
\* the round's status, phaseEndTime and stored timer handle and schedules the
\* voting deadline timer; prompts, images, votes, players (scores), the
\* room, the generation counters and every other round are unchanged.
C35_GeneratingToVotingFrame ==
  [][ \A j \in DOMAIN jobs :
        (TransitionPhase(j) /\ rounds[j.roundId].status = "generating") =>
          /\ rounds' = [rounds EXCEPT ![j.roundId] =
                          [@ EXCEPT !.status = "voting",
                                    !.phaseEndTime = VOTING_PHASE_DURATION,
                                    !.scheduledTransitionId = "voting"]]
          /\ jobs' = Schedule(Done(jobs, j),
                        Job("transitionPhase", j.roundId, VOTING_PHASE_DURATION,
                            0, "deadline", "voting"))
          /\ UNCHANGED <<prompts, images, votes, players, room, scoreLog>>
    ]_vars

\* A round has just entered voting with its images and generation counters
C35_Witness ==
  \E r \in DOMAIN rounds :
    /\ rounds[r].status = "voting"
    /\ rounds[r].phaseEndTime = VOTING_PHASE_DURATION
    /\ rounds[r].scheduledTransitionId = "voting"
    /\ rounds[r].generationExpectedCount = 2
    /\ rounds[r].generationCompletedCount = 2
    /\ Cardinality(ImagesOf(r)) = 2
    /\ DeadlineJobs(jobs, r, "voting") # {}

\* The pending verifyAndTriggerGeneration jobs of round r
VerifyJobs(js, r) ==
  {j \in DOMAIN js : j.fn = "verifyAndTriggerGeneration" /\ j.roundId = r}

\* C36: the verification chain of a round is one job at a time whose
\* retryCount is the number of runs before it: it starts at 0 in the prompt
\* to generating step, each run without prompts and with retryCount below 3
\* schedules the only successor with retryCount + 1 after retryCount + 1
\* seconds (1 s, 2 s, 3 s, each longer than the delay before), and a run
\* that finds prompts starts image generation while the run with retryCount
\* 3 takes the fail-open path; both schedule no further verification, so
\* the chain runs at most 4 times.
C36_VerifyChainBounded ==
  [][ \A r \in DOMAIN rounds :
        /\ Pending(jobs, "verifyAndTriggerGeneration", r) <= 1
        /\ \A k \in VerifyJobs(jobs, r) : k.retryCount \in 0..maxRetries
        /\ \A j \in VerifyJobs(jobs, r) :
             VerifyAndTriggerGeneration(j) =>
               \/ /\ PromptsOf(r) # {}
                  /\ VerifyJobs(jobs', r) = {}
                  /\ Pending(jobs', "generateAIImages", r)
                       = Pending(jobs, "generateAIImages", r) + 1
                  /\ UNCHANGED rounds
               \/ /\ PromptsOf(r) = {}
                  /\ j.retryCount < maxRetries
                  /\ Pending(jobs', "verifyAndTriggerGeneration", r) = 1
                  /\ \A k \in VerifyJobs(jobs', r) :
                       /\ k.retryCount = j.retryCount + 1
                       /\ k.due = Ms(k.retryCount * 1000)
                       /\ j.retryCount >= 1 => k.due > Ms(j.retryCount * 1000)
                  /\ Pending(jobs', "generateAIImages", r)
                       = Pending(jobs, "generateAIImages", r)
                  /\ UNCHANGED rounds
               \/ /\ PromptsOf(r) = {}
                  /\ j.retryCount = maxRetries
                  /\ VerifyJobs(jobs', r) = {}
                  /\ rounds'[r].generationError
                  /\ \E k \in DOMAIN jobs' :
                       /\ k.fn = "transitionPhase" /\ k.roundId = r
                       /\ k.origin = "failopen"
                       /\ k \notin DOMAIN jobs
        /\ (\A j \in VerifyJobs(jobs, r) : ~VerifyAndTriggerGeneration(j)) =>
             \/ {k.retryCount : k \in VerifyJobs(jobs', r)}
                  = {k.retryCount : k \in VerifyJobs(jobs, r)}
             \/ /\ RunsTransition(r)
                /\ rounds[r].status = "prompt"
                /\ VerifyJobs(jobs, r) = {}
                /\ \A k \in VerifyJobs(jobs', r) :
                     k.retryCount = 0 /\ k.due = Ms(1000)
    ]_vars

\* The fourth run of the chain (retryCount 3) found no prompts and took the
\* fail-open path
C36_Witness ==
  \E r \in DOMAIN rounds :
    /\ rounds[r].generationError
    /\ VerifyJobs(jobs, r) = {}
    /\ \E k \in DOMAIN jobs : k.fn = "transitionPhase" /\ k.roundId = r
                              /\ k.origin = "failopen"

C38_ReadModelConsistent ==
  \A u \in Users :
    LET shown == getGameState(u) IN
    /\ shown # {} =>
         \E r \in CurrentRoundIds : rounds[r].status \in {"voting", "results"}
    /\ \A r \in CurrentRoundIds :
         LET winners == Range(findWinningImages(
                                countVotesPerImage(SeqOf(VotesOf(r)), EmptyMap)))
         IN \A i \in shown :
              /\ i.isWinner <=> (rounds[r].status = "results" /\ i._id \in winners)
              /\ rounds[r].status = "voting" => ~i.isWinner

\* The round is in results, three images are shown, one with two votes is
\* flagged and one with one vote is not
C38_Witness ==
  \E r \in CurrentRoundIds :
    /\ rounds[r].status = "results"
    /\ Cardinality(getGameState(1)) = 3
    /\ \E i \in getGameState(1) : i.isWinner /\ i.voteCount = 2
    /\ \E i \in getGameState(1) : ~i.isWinner /\ i.voteCount = 1

\* The sum of the pointsAwarded entries of player pl in a result list
RECURSIVE PointsAwardedTo(_, _)
PointsAwardedTo(results, pl) ==
  IF results = <<>> THEN 0
  ELSE (IF Head(results).playerId = pl THEN Head(results).pointsAwarded ELSE 0)
       + PointsAwardedTo(Tail(results), pl)

\* What calculateRoundScores returns for the stored votes, images and
\* prompts of round r with the point configuration of calculateScores
RoundScores(r) ==
  calculateRoundScores(SeqOf(VotesOf(r)), ImagesOf(r), PromptsOf(r),
                       [pointsPerWin |-> POINTS_PER_WIN,
                        pointsPerVote |-> POINTS_PER_VOTE])

\* C39: in a round whose votes reference existing images, prompts and
\* players, a run of calculateScores raises the score of every player by the
\* sum of that player's pointsAwarded entries in the list calculateRoundScores
\* returns for the same votes, images, prompts and point configuration.
C39_StoredScoringMatchesPure ==
  [][ \A j \in DOMAIN jobs :
        CalculateScores(j) =>
          \A pl \in DOMAIN players :
            players'[pl].score - players[pl].score
              = PointsAwardedTo(RoundScores(j.roundId), pl)
    ]_vars

\* A round was scored with a three-way tie: every owner got a third of the
\* win points and every voter the participation points
C39_Witness ==
  \E r \in DOMAIN rounds :
    /\ Cardinality(VotesOf(r)) = 3
    /\ Len(RoundScores(r)) = 6
    /\ \A pl \in DOMAIN players :
         /\ players[pl].score = PointsAwardedTo(RoundScores(r), pl)
         /\ players[pl].score = POINTS_PER_VOTE + (POINTS_PER_WIN \div 3)
    /\ \E e \in Range(scoreLog) : e.roundId = r
====
